---- MODULE Spec2Model ----
(***************************************************************************)
(* Model of sentry's search-filter compiler,                               *)
(* src/sentry/search/events/filter.py: the boolean tree builder            *)
(* (convert_search_boolean_to_snuba_query), the per-term conversion        *)
(* (convert_snuba_condition_to_function, format_search_filter,             *)
(* convert_search_filter_to_snuba_query) and the release resolver          *)
(* (_release_stage/_semver/_semver_package/_semver_build converters).      *)
(*                                                                         *)
(* Python values are modelled as records so that any two of them compare:  *)
(*   a call or tree node  [fn, args]   (python: [function, [a, b]])        *)
(*   a column             [col]                                            *)
(*   a literal            [lit] (string), [num] (int), [lst] (list of int) *)
(*   a list object        [lref] (the key of its content in the heap)      *)
(* A python list that more than one place can reference lives in the heap: *)
(* the value list owned by a parsed term under the term's object id, the   *)
(* project-id list made for a project term under the negated id. That      *)
(* makes aliasing (to_list returns its argument, SearchValue.value returns *)
(* its list) and the in-place list.extend visible.                         *)
(***************************************************************************)
EXTENDS Integers, Sequences, FiniteSets, TLC

VARIABLES
    terms,      \* the parsed term sequence handed to the compiler
    heap,       \* object id -> current content of a term-owned value list
    results,    \* outcomes of the compile calls made so far, in call order
    store,      \* release store: version number -> project id (0: no such release)
    sfilter,    \* the release term handed to a release converter
    sparams,    \* the parameter bag of the release converter call
    sresult,    \* outcome of the release converter call
    cterm,      \* the term handed to the term converter
    cenv,       \* the environment of the term converter call
    cresult     \* outcome of the term converter call

vars == <<terms, heap, results, store, sfilter, sparams, sresult, cterm, cenv, cresult>>

-----------------------------------------------------------------------------
(* Python-level values *)

Col(n) == [col |-> n]
Lit(s) == [lit |-> s]
Num(n) == [num |-> n]
Lst(l) == [lst |-> l]
Ref(k) == [lref |-> k]
Call(f, a) == [fn |-> f, args |-> a]

\* python None in a tree / fragment position
NoneT == [fn |-> "None", args |-> <<>>]

SNUBA_AND == "and"
SNUBA_OR == "or"
BOOLEAN_AND == "AND"
BOOLEAN_OR == "OR"

EQUALITY_OPERATORS == {"=", "IN"}
NO_CONVERSION_FIELDS == {"start", "end"}
PROJECT_ALIAS == "project"
PROJECT_NAME_ALIAS == "project.name"
ISSUE_ID_ALIAS == "issue.id"
ISSUE_ALIAS == "issue"
ERROR_UNHANDLED_ALIAS == "error.unhandled"
\* sentry.search.events.constants.ARRAY_FIELDS, two of its members
ARRAY_FIELDS == {"error.type", "stack.filename"}

\* sentry.utils.snuba.OPERATOR_TO_FUNCTION
OPERATOR_TO_FUNCTION(op) ==
    CASE op = "=" -> "equals"
      [] op = "!=" -> "notEquals"
      [] op = ">" -> "greater"
      [] op = "<" -> "less"
      [] op = ">=" -> "greaterOrEquals"
      [] op = "<=" -> "lessOrEquals"
      [] op = "LIKE" -> "like"
      [] op = "NOT LIKE" -> "notLike"
      [] op = "IS NULL" -> "isNull"
      [] op = "IS NOT NULL" -> "isNotNull"
      [] op = "IN" -> "in"
      [] op = "NOT IN" -> "notIn"

-----------------------------------------------------------------------------
(* Parsed terms (sentry.api.event_search) *)

\* a term value: a scalar string (s), a scalar id (n), a list of ids (ids,
\* the parse-time content; the live content is heap[oid]) or a list of slugs
StrV(x) == [kind |-> "str", s |-> x, n |-> 0, ids |-> <<>>, slugs |-> <<>>, wild |-> FALSE]
IdV(x) == [kind |-> "id", s |-> "", n |-> x, ids |-> <<>>, slugs |-> <<>>, wild |-> FALSE]
IdsV(x) == [kind |-> "ids", s |-> "", n |-> 0, ids |-> x, slugs |-> <<>>, wild |-> FALSE]
SlugsV(x) == [kind |-> "slugs", s |-> "", n |-> 0, ids |-> <<>>, slugs |-> x, wild |-> FALSE]

\* a string value holding a wildcard: raw is the raw string, one character
\* per item; SearchValue.value is then the pattern made from it (s), and
\* is_wildcard() holds (wild)
WildV(raw) ==
    [kind |-> "str", s |-> "^pattern$", n |-> 0, ids |-> <<>>, slugs |-> <<>>,
     wild |-> TRUE, raw |-> raw]

\* a list of strings as a term value
StrsV(x) == [kind |-> "slugs", s |-> "", n |-> 0, ids |-> <<>>, slugs |-> x, wild |-> FALSE]

SearchKey(name, tag) == [name |-> name, is_tag |-> tag]

SearchFilter(key, op, value) ==
    [type |-> "SearchFilter", key |-> key, operator |-> op, value |-> value,
     oid |-> 0, children |-> <<>>]

AggregateFilter(key, op, value) ==
    [type |-> "AggregateFilter", key |-> key, operator |-> op, value |-> value,
     oid |-> 0, children |-> <<>>]

ParenExpression(children) ==
    [type |-> "ParenExpression", key |-> SearchKey("", FALSE), operator |-> "",
     value |-> StrV(""), oid |-> 0, children |-> children]

\* the connective tokens "AND" / "OR" of the flat sequence
Connective(name) ==
    [type |-> "SearchBoolean", key |-> SearchKey("", FALSE), operator |-> name,
     value |-> StrV(""), oid |-> 0, children |-> <<>>]

AND == Connective(BOOLEAN_AND)
OR == Connective(BOOLEAN_OR)

is_operator(t) ==
    t.type = "SearchBoolean" /\ t.operator \in {BOOLEAN_AND, BOOLEAN_OR}

is_in_filter(t) == t.operator \in {"IN", "NOT IN"}

\* SearchValue.value of a list-valued term is the list object the term owns:
\* heap[oid] for a parsed term, the literal content for a term built in place
ListOf(t, h) == IF t.oid # 0 THEN h[t.oid] ELSE t.value.ids

\* search_filter.value.value == ""
\* variant: no value counts as empty
IsEmptyValueNever(t) == FALSE

IsEmptyValue(t) == t.value.kind = "str" /\ t.value.s = ""

\* the value of a term as the right-hand side of a condition
Rhs(t, h) ==
    CASE t.value.kind = "str" -> Lit(t.value.s)
      [] t.value.kind = "id" -> Num(t.value.n)
      [] t.value.kind = "ids" -> IF t.oid # 0 THEN Ref(t.oid) ELSE Lst(t.value.ids)
      [] t.value.kind = "slugs" -> [slugs |-> t.value.slugs]

-----------------------------------------------------------------------------
(* Conditions *)

Cond(lhs, op, rhs) == [lhs |-> lhs, op |-> op, rhs |-> rhs]

\* what a converter returns: None, one condition, a list of conditions to be
\* OR-ed, or a raised exception
FragNone == [kind |-> "none", conds |-> <<>>, err |-> ""]
FragCond(c) == [kind |-> "cond", conds |-> <<c>>, err |-> ""]
FragList(cs) == [kind |-> "list", conds |-> cs, err |-> ""]
FragError(e) == [kind |-> "error", conds |-> <<>>, err |-> e]

\* truthiness of a converted filter: None and the empty list are falsy
FragTruthy(f) == f.kind = "cond" \/ (f.kind = "list" /\ Len(f.conds) > 0)

is_condition(f) == f.kind = "cond"

convert_condition_to_function(cond) ==
    Call(OPERATOR_TO_FUNCTION(cond.op), <<cond.lhs, cond.rhs>>)

\* the branch `terms[1] in ["IN", "NOT IN"]` is for a bare condition triple;
\* the callers here pass lists of function trees, whose items are never strings
RECURSIVE convert_array_to_tree(_, _)
convert_array_to_tree(operator, ts) ==
    IF Len(ts) = 1 THEN ts[1]
    ELSE IF Len(ts) = 2 THEN Call(operator, ts)
    ELSE Call(operator, <<ts[1], convert_array_to_tree(operator, Tail(ts))>>)

-----------------------------------------------------------------------------
(* Release store (sentry.models.release) and the release resolver *)

\* sentry.search.events.constants.MAX_SEARCH_RELEASES is 1000; the model keeps
\* the same code with a small cap so that a query can saturate it
MAX_SEARCH_RELEASES == 2

\* the releases that may exist are numbered 1..NumVersions; a release's
\* number is its version string and its semver major component
NumVersions == 4

\* SEMVER_EMPTY_RELEASE: a version no release has
SEMVER_EMPTY_RELEASE == 0

SEMVER_FAKE_PACKAGE == "__sentry_fake__"

Versions == 1..NumVersions

PackageOf(v) == IF v % 2 = 1 THEN "pkgA" ELSE "pkgB"
BuildOf(v) == v % 3
StageOf(v) == IF v <= 2 THEN "adopted" ELSE "low_adoption"

OPERATOR_TO_DJANGO_KEYS == {"=", "<", "<=", ">", ">="}

OPERATOR_TO_DJANGO(op) ==
    CASE op = "=" -> "exact"
      [] op = "<" -> "lt"
      [] op = "<=" -> "lte"
      [] op = ">" -> "gt"
      [] op = ">=" -> "gte"

OPERATOR_NEGATION_MAP(op) ==
    CASE op = "=" -> "!="
      [] op = "!=" -> "="
      [] op = "<" -> ">="
      [] op = "<=" -> ">"
      [] op = ">" -> "<="
      [] op = ">=" -> "<"

DjangoCompare(op, a, b) ==
    CASE op = "exact" -> a = b
      [] op = "lt" -> a < b
      [] op = "lte" -> a <= b
      [] op = "gt" -> a > b
      [] op = "gte" -> a >= b

\* python: project_ids=None or [] puts no restriction on the project
InScope(st, v, project_ids) ==
    /\ st[v] # 0
    /\ (Len(project_ids) = 0 \/ \E i \in 1..Len(project_ids) : project_ids[i] = st[v])

SemverFilter(operator, version_parts, package, negated) ==
    [operator |-> operator, version_parts |-> version_parts,
     package |-> package, negated |-> negated]

\* Release.objects.filter_by_semver: the set of matching versions
filter_by_semver(st, sf, project_ids) ==
    {v \in Versions :
        /\ InScope(st, v, project_ids)
        /\ (sf.package # "" => ((PackageOf(v) = sf.package) # sf.negated))
        /\ (Len(sf.version_parts) > 0 =>
               (DjangoCompare(sf.operator, v, sf.version_parts[1]) # sf.negated))}

\* Release.objects.filter_by_stage
filter_by_stage(st, operator, stages, project_ids) ==
    {v \in Versions :
        /\ InScope(st, v, project_ids)
        /\ ((StageOf(v) \in stages) = (operator \in EQUALITY_OPERATORS))}

\* Release.objects.filter_by_semver_build
filter_by_semver_build(st, django_op, build, project_ids, negated) ==
    {v \in Versions :
        /\ InScope(st, v, project_ids)
        /\ (DjangoCompare(django_op, BuildOf(v), build) # negated)}

\* rows of a query in ascending / descending semver order
RECURSIVE Ascending(_)
Ascending(S) ==
    IF S = {} THEN <<>>
    ELSE LET m == CHOOSE x \in S : \A y \in S : x <= y
         IN <<m>> \o Ascending(S \ {m})

RECURSIVE Reverse(_)
Reverse(q) == IF Len(q) = 0 THEN <<>> ELSE Reverse(Tail(q)) \o <<Head(q)>>

OrderBy(S, descending) == IF descending THEN Reverse(Ascending(S)) ELSE Ascending(S)

\* qs[:n]
Limit(q, n) == IF Len(q) <= n THEN q ELSE SubSeq(q, 1, n)

\* a release.version value: the optional package before "@", the version's
\* numeric segments, its prerelease tag, and whether the release parser
\* (sentry_relay parse_release) accepts it as a complete semantic version
VerV(package, segs, pre, complete) ==
    [kind |-> "semver", s |-> "", n |-> 0, ids |-> segs, slugs |-> <<>>,
     wild |-> FALSE, package |-> package, pre |-> pre, complete |-> complete]

RELEASE_STAGE_ALIAS == "release.stage"
SEMVER_ALIAS == "release.version"
SEMVER_PACKAGE_ALIAS == "release.package"
SEMVER_BUILD_ALIAS == "release.build"

\* the outcome of a release converter: the raised exception or the returned
\* condition, with the store queries it issued and their rows
Raised(exc, nq) ==
    [status |-> exc, frag |-> Cond(Col("release"), "", Lst(<<>>)), queries |-> nq,
     versions |-> <<>>, exclude_versions |-> <<>>]

Returned(final_operator, vs, nq, first, flipped) ==
    [status |-> "ok", frag |-> Cond(Col("release"), final_operator, Lst(vs)),
     queries |-> nq, versions |-> first, exclude_versions |-> flipped]

\* variant: only the parameter bag as a whole is looked at
NoParameterBag(params) == ~params.given

\* `not params or "organization_id" not in params`
NoOrganization(params) == ~params.given \/ params.organization_id = 0

\* variant: the empty list is emitted as it is
SubstituteEmptyNever(versions) == versions

\* if not versions: versions = [SEMVER_EMPTY_RELEASE]
SubstituteEmpty(versions) ==
    IF Len(versions) = 0 THEN <<SEMVER_EMPTY_RELEASE>> ELSE versions

\* variant: an empty exclude list counts as shorter
UseExcludeWhenShorter(versions, exclude_versions) ==
    Len(exclude_versions) < Len(versions)

\* variant: the comparison of the two lengths reversed
UseExcludeReversed(versions, exclude_versions) ==
    Len(exclude_versions) > 0 /\ Len(versions) < Len(exclude_versions)

\* exclude_versions and len(exclude_versions) < len(versions)
UseExclude(versions, exclude_versions) ==
    Len(exclude_versions) > 0 /\ Len(exclude_versions) < Len(versions)

\* variant: IN and NOT IN taken for = and !=
HandleMembershipAsEquality(operator) ==
    IF operator \in {"!=", "NOT IN"} THEN [operator |-> "=", negated |-> TRUE]
    ELSE IF operator = "IN" THEN [operator |-> "=", negated |-> FALSE]
    ELSE [operator |-> operator, negated |-> FALSE]

handle_operator_negation(operator) ==
    IF operator = "!=" THEN [operator |-> "=", negated |-> TRUE]
    ELSE [operator |-> operator, negated |-> FALSE]

\* a segment of a version string: a number, a wildcard or other text
WildcardSeg == 0 - 1
TextSeg == 0 - 2

\* version.split(".", 3): at most four parts, the fourth holding whatever
\* follows the third dot; with a dot in it, it is neither a wildcard nor an
\* integer
SplitVersion(segs) ==
    IF Len(segs) <= 4 THEN segs ELSE SubSeq(segs, 1, 3) \o <<TextSeg>>

\* variant: a part that is not an integer is passed over
RECURSIVE WildcardPartsLenient(_)
WildcardPartsLenient(segs) ==
    IF Len(segs) = 0 \/ Head(segs) = WildcardSeg THEN [ok |-> TRUE, parts |-> <<>>]
    ELSE LET rest == WildcardPartsLenient(Tail(segs))
         IN  [ok |-> TRUE,
              parts |-> (IF Head(segs) = TextSeg THEN <<>> ELSE <<Head(segs)>>)
                        \o rest.parts]

\* the integer segments before the first wildcard; ok = FALSE when int(part)
\* raises on the way
RECURSIVE WildcardParts(_)
WildcardParts(segs) ==
    IF Len(segs) = 0 \/ Head(segs) = WildcardSeg THEN [ok |-> TRUE, parts |-> <<>>]
    ELSE IF Head(segs) = TextSeg THEN [ok |-> FALSE, parts |-> <<>>]
    ELSE LET rest == WildcardParts(Tail(segs))
         IN  [ok |-> rest.ok, parts |-> <<Head(segs)>> \o rest.parts]

\* ok = FALSE is a raised InvalidSearchQuery
parse_semver(version, operator) ==
    LET hn == handle_operator_negation(operator)
        pre == version.pre
        pkg == IF version.package # "" /\ version.package # SEMVER_FAKE_PACKAGE
               THEN version.package ELSE ""
        wp == WildcardParts(SplitVersion(version.ids))
    IN  IF hn.operator \notin OPERATOR_TO_DJANGO_KEYS
        THEN [ok |-> FALSE, filter |-> SemverFilter("", <<>>, "", FALSE)]
        ELSE IF version.complete
        THEN [ok |-> TRUE,
              filter |-> SemverFilter(
                  OPERATOR_TO_DJANGO(hn.operator),
                  <<version.ids[1], version.ids[2], version.ids[3], version.ids[4],
                    IF pre # "" THEN 0 ELSE 1, pre>>,
                  pkg, hn.negated)]
        ELSE IF ~wp.ok
        THEN [ok |-> FALSE, filter |-> SemverFilter("", <<>>, "", FALSE)]
        ELSE [ok |-> TRUE, filter |-> SemverFilter("exact", wp.parts, pkg, hn.negated)]

\* variant: the stage converter with the re-query of the semver converter
ReleaseStageRequerying(search_filter, name, params, st) ==
    IF NoOrganization(params) THEN Raised("ValueError", 0)
    ELSE
      LET stages == IF search_filter.value.kind = "slugs"
                    THEN {search_filter.value.slugs[i] :
                            i \in 1..Len(search_filter.value.slugs)}
                    ELSE {search_filter.value.s}
          negated == CASE search_filter.operator = "=" -> "!="
                       [] search_filter.operator = "!=" -> "="
                       [] search_filter.operator = "IN" -> "NOT IN"
                       [] OTHER -> "IN"
          qs == Limit(OrderBy(filter_by_stage(st, search_filter.operator, stages,
                                              params.project_id), FALSE),
                      MAX_SEARCH_RELEASES)
          exclude == Limit(OrderBy(filter_by_stage(st, negated, stages,
                                                   params.project_id), FALSE),
                           MAX_SEARCH_RELEASES)
      IN  IF Len(qs) < MAX_SEARCH_RELEASES
          THEN Returned("IN", SubstituteEmpty(qs), 1, qs, <<>>)
          ELSE IF UseExclude(qs, exclude)
          THEN Returned("NOT IN", exclude, 2, qs, exclude)
          ELSE Returned("IN", qs, 2, qs, exclude)

release_stage_filter_converter(search_filter, name, params, st) ==
    IF NoOrganization(params) THEN Raised("ValueError", 0)
    ELSE
      LET stages == IF search_filter.value.kind = "slugs"
                    THEN {search_filter.value.slugs[i] :
                            i \in 1..Len(search_filter.value.slugs)}
                    ELSE {search_filter.value.s}
          qs == Limit(OrderBy(filter_by_stage(st, search_filter.operator, stages,
                                              params.project_id), FALSE),
                      MAX_SEARCH_RELEASES)
      IN  Returned("IN", SubstituteEmpty(qs), 1, qs, <<>>)

semver_filter_converter(search_filter, name, params, st) ==
    IF NoOrganization(params) THEN Raised("ValueError", 0)
    ELSE
      LET version == search_filter.value
          operator == search_filter.operator
          \* operator.startswith("<")
          descending == operator \in {"<", "<="}
          parsed == parse_semver(version, operator)
      IN  IF ~parsed.ok THEN Raised("InvalidSearchQuery", 0)
          ELSE
            LET versions == Limit(OrderBy(filter_by_semver(st, parsed.filter,
                                                           params.project_id),
                                          descending),
                                  MAX_SEARCH_RELEASES)
            IN  IF Len(versions) = MAX_SEARCH_RELEASES
                THEN
                  LET negated == parse_semver(version, OPERATOR_NEGATION_MAP(operator))
                      \* the second query passes no project_ids
                      exclude_versions ==
                          Limit(OrderBy(filter_by_semver(st, negated.filter, <<>>),
                                        ~descending),
                                MAX_SEARCH_RELEASES)
                      flip == UseExclude(versions, exclude_versions)
                  IN  Returned(IF flip THEN "NOT IN" ELSE "IN",
                               SubstituteEmpty(IF flip THEN exclude_versions
                                               ELSE versions),
                               2, versions, exclude_versions)
                ELSE Returned("IN", SubstituteEmpty(versions), 1, versions, <<>>)

\* the package and build queries carry no order_by: `rows_descending` is the
\* order in which the database happens to return the rows
semver_package_filter_converter(search_filter, name, params, st, rows_descending) ==
    IF NoOrganization(params) THEN Raised("ValueError", 0)
    ELSE
      LET package == search_filter.value.s
          qs == Limit(OrderBy(filter_by_semver(st,
                                  SemverFilter("exact", <<>>, package, FALSE),
                                  params.project_id),
                              rows_descending),
                      MAX_SEARCH_RELEASES)
      IN  Returned("IN", SubstituteEmpty(qs), 1, qs, <<>>)

\* variant: the build converter with IN and NOT IN taken for = and !=
SemverBuildAcceptingMembership(search_filter, name, params, st, rows_descending) ==
    IF NoOrganization(params) THEN Raised("ValueError", 0)
    ELSE
      LET hn == HandleMembershipAsEquality(search_filter.operator)
      IN  IF hn.operator \notin OPERATOR_TO_DJANGO_KEYS
          THEN Raised("InvalidSearchQuery", 0)
          ELSE
            LET qs == Limit(OrderBy(filter_by_semver_build(st,
                                        OPERATOR_TO_DJANGO(hn.operator),
                                        search_filter.value.n,
                                        params.project_id, hn.negated),
                                    rows_descending),
                            MAX_SEARCH_RELEASES)
            IN  Returned("IN", SubstituteEmpty(qs), 1, qs, <<>>)

semver_build_filter_converter(search_filter, name, params, st, rows_descending) ==
    IF NoOrganization(params) THEN Raised("ValueError", 0)
    ELSE
      LET build == search_filter.value.n
          hn == handle_operator_negation(search_filter.operator)
      IN  IF hn.operator \notin OPERATOR_TO_DJANGO_KEYS
          THEN Raised("InvalidSearchQuery", 0)
          ELSE
            LET qs == Limit(OrderBy(filter_by_semver_build(st,
                                        OPERATOR_TO_DJANGO(hn.operator), build,
                                        params.project_id, hn.negated),
                                    rows_descending),
                            MAX_SEARCH_RELEASES)
            IN  Returned("IN", SubstituteEmpty(qs), 1, qs, <<>>)

-----------------------------------------------------------------------------
(* Term converter *)

\* Project.objects: the organization's projects, slug -> id
ProjectTable == [sl \in {"a", "b", "c"} |-> CASE sl = "a" -> 2 [] sl = "b" -> 1 [] sl = "c" -> 3]

SeqToSet(q) == {q[i] : i \in 1..Len(q)}

\* the environment of a conversion: the parameter bag, the release store and
\* the row order of its unordered queries
Env(params, st, rows_descending) ==
    [params |-> params, st |-> st, rows_descending |-> rows_descending,
     lookup_raises |-> TRUE]

\* the same with the behaviour of the group lookup on a short id that no
\* group of the organization has: it raises, or it returns the groups found
EnvWithLookup(params, st, rows_descending, lookup_raises) ==
    [params |-> params, st |-> st, rows_descending |-> rows_descending,
     lookup_raises |-> lookup_raises]

\* Group.objects.by_qualified_short_id_bulk: the organization's groups,
\* qualified short id -> id
GroupTable == [sh \in {"P-1", "P-2"} |-> CASE sh = "P-1" -> 7 [] sh = "P-2" -> 5]

FragOfRelease(r) == IF r.status = "ok" THEN FragCond(r.frag) ELSE FragError(r.status)

\* the members of a term value: value if isinstance(value, (list, tuple))
\* else [value], as a set
ValueSet(search_filter) ==
    IF search_filter.value.kind = "slugs" THEN SeqToSet(search_filter.value.slugs)
    ELSE {search_filter.value.s}

\* if "" in values: ... env_conditions.append(["environment", operator, None])
EnvironmentNull(search_filter, values) ==
    IF "" \in values
    THEN <<Cond(Col("environment"),
                IF search_filter.operator = "=" THEN "IS NULL" ELSE "IS NOT NULL",
                NoneT)>>
    ELSE <<>>

\* variant: the value condition is left out when the null condition is there
EnvironmentValuesUnlessNull(search_filter, values) ==
    IF Cardinality(values) = 1 /\ "" \notin ValueSet(search_filter)
    THEN <<Cond(Col("environment"),
                IF search_filter.operator \in EQUALITY_OPERATORS THEN "=" ELSE "!=",
                Lit(CHOOSE v \in values : TRUE))>>
    ELSE <<>>

\* values: the set without ""
\* if len(values) == 1: ... elif values: ...
EnvironmentValues(search_filter, values) ==
    IF Cardinality(values) = 1
    THEN <<Cond(Col("environment"),
                IF search_filter.operator \in EQUALITY_OPERATORS THEN "=" ELSE "!=",
                Lit(CHOOSE v \in values : TRUE))>>
    ELSE IF values # {}
    THEN <<Cond(Col("environment"),
                IF search_filter.operator \in EQUALITY_OPERATORS THEN "IN" ELSE "NOT IN",
                [set |-> values])>>
    ELSE <<>>

\* returns env_conditions, a list of conditions to be OR-ed
environment_filter_converter(search_filter, name) ==
    FragList(EnvironmentNull(search_filter, ValueSet(search_filter))
             \o EnvironmentValues(search_filter, ValueSet(search_filter) \ {""}))

\* f"'{value}'"
Quoted(x) == [quoted |-> x]

message_filter_converter(search_filter, name) ==
    IF search_filter.value.wild
    THEN FragCond(Cond(Call("match", <<Col("message"), [regex |-> search_filter.value.s]>>),
                       search_filter.operator, Num(1)))
    ELSE IF IsEmptyValue(search_filter)
    THEN FragCond(Cond(Call("equals", <<Col("message"), Lit("")>>),
                       IF search_filter.operator = "=" THEN "=" ELSE "!=", Num(1)))
    ELSE IF is_in_filter(search_filter)
    THEN FragCond(Cond(Call("multiSearchFirstPositionCaseInsensitive",
                            <<Call("toString", <<Col("message")>>),
                              Call("array", <<Quoted(search_filter.value.slugs)>>)>>),
                       IF search_filter.operator \in EQUALITY_OPERATORS THEN "!=" ELSE "=",
                       Num(0)))
    ELSE FragCond(Cond(Call("positionCaseInsensitive",
                            <<Col("message"), Quoted(search_filter.value.s)>>),
                       IF search_filter.operator \in EQUALITY_OPERATORS THEN "!=" ELSE "=",
                       Num(0)))

\* value in ("1", 1) / value in ("0", 0)
IsLiteral(value, digit) ==
    \/ value.kind = "str" /\ ~value.wild /\ value.s = (IF digit = 1 THEN "1" ELSE "0")
    \/ value.kind = "id" /\ value.n = digit

\* variant: a literal that is neither 1 nor 0 counts as handled
HandledLiteralLenient(value) ==
    IF IsLiteral(value, 0)
    THEN FragCond(Cond(Call("notHandled", <<>>), "=", Num(1)))
    ELSE FragCond(Cond(Call("isHandled", <<>>), "=", Num(1)))

\* lines 286-290: the value is not ""
HandledLiteral(value) ==
    IF IsLiteral(value, 1)
    THEN FragCond(Cond(Call("isHandled", <<>>), "=", Num(1)))
    ELSE IF IsLiteral(value, 0)
    THEN FragCond(Cond(Call("notHandled", <<>>), "=", Num(1)))
    ELSE FragError("InvalidSearchQuery")

error_handled_filter_converter(search_filter, name) ==
    IF IsEmptyValue(search_filter)
    THEN FragCond(Cond(Call("isHandled", <<>>), "=",
                       Num(IF search_filter.operator = "!=" THEN 1 ELSE 0)))
    ELSE HandledLiteral(search_filter.value)

\* variant: the has-query of error.unhandled answered as that of error.handled
ErrorUnhandledHasAsHandled(search_filter, name) ==
    IF IsEmptyValue(search_filter)
    THEN FragCond(Cond(Call("isHandled", <<>>), "=",
                       Num(IF search_filter.operator = "!=" THEN 1 ELSE 0)))
    ELSE IF IsLiteral(search_filter.value, 1)
    THEN FragCond(Cond(Call("notHandled", <<>>), "=", Num(1)))
    ELSE IF IsLiteral(search_filter.value, 0)
    THEN FragCond(Cond(Call("isHandled", <<>>), "=", Num(1)))
    ELSE FragError("InvalidSearchQuery")

error_unhandled_filter_converter(search_filter, name) ==
    IF IsEmptyValue(search_filter)
    THEN FragCond(Cond(Call("isHandled", <<>>), "=",
                       Num(IF search_filter.operator = "!=" THEN 0 ELSE 1)))
    ELSE IF IsLiteral(search_filter.value, 1)
    THEN FragCond(Cond(Call("notHandled", <<>>), "=", Num(1)))
    ELSE IF IsLiteral(search_filter.value, 0)
    THEN FragCond(Cond(Call("isHandled", <<>>), "=", Num(1)))
    ELSE FragError("InvalidSearchQuery")

TRANSACTION_STATUS_ALIAS == "transaction.status"
TEAM_KEY_TRANSACTION_ALIAS == "team_key_transaction"

\* sentry_relay.consts.SPAN_STATUS_NAME_TO_CODE, three of its entries
SPAN_STATUS_NAME_TO_CODE ==
    [nm \in {"ok", "cancelled", "unknown"} |->
        CASE nm = "ok" -> 0 [] nm = "cancelled" -> 1 [] nm = "unknown" -> 2]

\* variant: a name the table does not have is taken for "unknown"
TranslateWithFallback(val) ==
    IF val \in DOMAIN SPAN_STATUS_NAME_TO_CODE
    THEN [ok |-> TRUE, code |-> SPAN_STATUS_NAME_TO_CODE[val]]
    ELSE [ok |-> TRUE, code |-> SPAN_STATUS_NAME_TO_CODE["unknown"]]

\* ok = FALSE is a raised InvalidSearchQuery
translate_transaction_status(val) ==
    IF val \in DOMAIN SPAN_STATUS_NAME_TO_CODE
    THEN [ok |-> TRUE, code |-> SPAN_STATUS_NAME_TO_CODE[val]]
    ELSE [ok |-> FALSE, code |-> 0]

\* a wildcard string and a number are no keys of the table; a string
\* iterated as an IN value yields its characters, none of them a key; a list
\* looked up as one key is unhashable
transaction_status_filter_converter(search_filter, name) ==
    LET value == search_filter.value
        raw_value == value.slugs
        internal_value == [i \in 1..Len(raw_value) |->
                              translate_transaction_status(raw_value[i])]
    IN  IF IsEmptyValue(search_filter)
        THEN FragCond(Cond(Call("isNull", <<Col(name)>>), search_filter.operator, Num(1)))
        ELSE IF is_in_filter(search_filter)
        THEN IF value.kind # "slugs" THEN FragError("InvalidSearchQuery")
             ELSE IF \E i \in 1..Len(raw_value) : ~internal_value[i].ok
             THEN FragError("InvalidSearchQuery")
             ELSE FragCond(Cond(Col(name), search_filter.operator,
                                Lst([i \in 1..Len(raw_value) |-> internal_value[i].code])))
        ELSE IF value.kind = "slugs" THEN FragError("TypeError")
        ELSE IF value.kind # "str" \/ value.wild THEN FragError("InvalidSearchQuery")
        ELSE IF ~translate_transaction_status(value.s).ok
        THEN FragError("InvalidSearchQuery")
        ELSE FragCond(Cond(Col(name), search_filter.operator,
                           Num(translate_transaction_status(value.s).code)))

\* FIELD_ALIASES[TEAM_KEY_TRANSACTION_ALIAS].get_field(params): an expression
\* of the alias registry
KeyTransactionExpr == Call("team_key_transaction_expression", <<>>)

team_key_transaction_filter_converter(search_filter, name) ==
    IF IsEmptyValue(search_filter)
    THEN FragCond(Cond(KeyTransactionExpr,
                       IF search_filter.operator = "!=" THEN "!=" ELSE "=", Num(0)))
    ELSE IF IsLiteral(search_filter.value, 1)
    THEN FragCond(Cond(KeyTransactionExpr, "=", Num(1)))
    ELSE IF IsLiteral(search_filter.value, 0)
    THEN FragCond(Cond(KeyTransactionExpr, "=", Num(0)))
    ELSE FragError("InvalidSearchQuery")

issue_id_filter_converter(search_filter, name, h) ==
    LET in_list == search_filter.value.kind = "ids"
        value == IF in_list THEN ListOf(search_filter, h) ELSE <<>>
        has == IsEmptyValue(search_filter)
               \/ (is_in_filter(search_filter) /\ in_list
                   /\ \E i \in 1..Len(value) : value[i] = 0)
    IN  IF has
        THEN FragCond(Cond(Call("coalesce", <<Col(name), Num(0)>>),
                           search_filter.operator,
                           IF is_in_filter(search_filter) THEN Lst(value) ELSE Num(0)))
        ELSE FragCond(Cond(Col(name), search_filter.operator, Rhs(search_filter, h)))

KeyConversionNames ==
    {"environment", "message", TRANSACTION_STATUS_ALIAS, ISSUE_ID_ALIAS,
     ERROR_UNHANDLED_ALIAS, "error.handled", TEAM_KEY_TRANSACTION_ALIAS,
     RELEASE_STAGE_ALIAS, SEMVER_ALIAS, SEMVER_PACKAGE_ALIAS, SEMVER_BUILD_ALIAS}

key_conversion_map(name, search_filter, e, h) ==
    CASE name = ISSUE_ID_ALIAS -> issue_id_filter_converter(search_filter, name, h)
      [] name = "environment" -> environment_filter_converter(search_filter, name)
      [] name = "message" -> message_filter_converter(search_filter, name)
      [] name = TRANSACTION_STATUS_ALIAS ->
            transaction_status_filter_converter(search_filter, name)
      [] name = TEAM_KEY_TRANSACTION_ALIAS ->
            team_key_transaction_filter_converter(search_filter, name)
      [] name = ERROR_UNHANDLED_ALIAS -> error_unhandled_filter_converter(search_filter, name)
      [] name = "error.handled" -> error_handled_filter_converter(search_filter, name)
      [] name = RELEASE_STAGE_ALIAS ->
            FragOfRelease(release_stage_filter_converter(search_filter, name, e.params, e.st))
      [] name = SEMVER_ALIAS ->
            FragOfRelease(semver_filter_converter(search_filter, name, e.params, e.st))
      [] name = SEMVER_PACKAGE_ALIAS ->
            FragOfRelease(semver_package_filter_converter(search_filter, name, e.params,
                                                          e.st, e.rows_descending))
      [] name = SEMVER_BUILD_ALIAS ->
            FragOfRelease(semver_build_filter_converter(search_filter, name, e.params,
                                                        e.st, e.rows_descending))

\* str.replace(old, new) for a one-character old, on a string held as the
\* sequence of its characters
RECURSIVE Replace(_, _, _)
Replace(str, old, new) ==
    IF Len(str) = 0 THEN <<>>
    ELSE (IF Head(str) = old THEN new ELSE <<Head(str)>>) \o Replace(Tail(str), old, new)

Backslash == "\\"

\* variant: the asterisks translated before the percent signs are escaped
LikeValueStarFirst(raw_value) ==
    Replace(Replace(Replace(Replace(raw_value, "*", <<"%">>),
                            Backslash, <<Backslash, Backslash>>),
                    "%", <<Backslash, "%">>),
            "_", <<Backslash, "_">>)

\* raw_value.replace("\\", "\\\\").replace("%", "\\%").replace("_", "\\_").replace("*", "%")
LikeValue(raw_value) ==
    Replace(Replace(Replace(Replace(raw_value, Backslash, <<Backslash, Backslash>>),
                            "%", <<Backslash, "%">>),
                    "_", <<Backslash, "_">>),
            "*", <<"%">>)

\* variant: the IN test made before the wildcard test
ArrayWildcardUnlessIn(search_filter, name) ==
    IF is_in_filter(search_filter)
    THEN FragCond(Cond(Call("hasAny", <<Call("arrayConcat", <<Col(name)>>),
                                        Call("array", <<Quoted(search_filter.value.slugs)>>)>>),
                       IF search_filter.operator = "IN" THEN "=" ELSE "!=",
                       Num(1)))
    ELSE FragCond(Cond(Col(name),
                       IF search_filter.operator = "=" THEN "LIKE" ELSE "NOT LIKE",
                       [str |-> LikeValue(search_filter.value.raw)]))

\* the branch `name in ARRAY_FIELDS and search_filter.value.is_wildcard()`
ArrayWildcard(search_filter, name) ==
    FragCond(Cond(Col(name),
                  IF search_filter.operator = "=" THEN "LIKE" ELSE "NOT LIKE",
                  [str |-> LikeValue(search_filter.value.raw)]))

\* the branch `name in ARRAY_FIELDS and search_filter.is_in_filter`
ArrayIn(search_filter, name) ==
    FragCond(Cond(Call("hasAny", <<Call("arrayConcat", <<Col(name)>>),
                                   Call("array", <<Quoted(search_filter.value.slugs)>>)>>),
                  IF search_filter.operator = "IN" THEN "=" ELSE "!=",
                  Num(1)))

\* the branch `name in ARRAY_FIELDS and search_filter.value.raw_value == ""`
ArrayEmpty(search_filter, name) ==
    FragCond(Cond(Call("notEmpty", <<Col(name)>>), "=",
                  Num(IF search_filter.operator = "!=" THEN 1 ELSE 0)))

convert_search_filter_to_snuba_query(search_filter, e, h) ==
    LET name == IF search_filter.key.name = "group_id" THEN "tags[group_id]"
                ELSE search_filter.key.name
        value == Rhs(search_filter, h)
        is_tag == search_filter.key.is_tag
        operator == search_filter.operator
        lhs == IF is_tag THEN Call("ifNull", <<Col(name), Lit("''")>>) ELSE Col(name)
        is_null_condition == Cond(Call("isNull", <<lhs>>), "=", Num(1))
        condition == IF search_filter.value.wild
                     THEN Cond(Call("match", <<lhs, [regex |-> search_filter.value.s]>>),
                               operator, Num(1))
                     ELSE Cond(lhs, operator, value)
    IN  IF name \in NO_CONVERSION_FIELDS THEN FragNone
        ELSE IF name \in KeyConversionNames
        THEN key_conversion_map(name, search_filter, e, h)
        ELSE IF name \in ARRAY_FIELDS /\ search_filter.value.wild
        THEN ArrayWildcard(search_filter, name)
        ELSE IF name \in ARRAY_FIELDS /\ is_in_filter(search_filter)
        THEN ArrayIn(search_filter, name)
        ELSE IF name \in ARRAY_FIELDS /\ IsEmptyValue(search_filter)
        THEN ArrayEmpty(search_filter, name)
        ELSE IF operator \in {"=", "!="} /\ IsEmptyValue(search_filter)
        THEN IF is_tag THEN FragCond(Cond(lhs, operator, value))
             ELSE FragCond(Cond(Call("isNull", <<lhs>>), operator, Num(1)))
        ELSE IF operator \in {"!=", "NOT IN"} /\ ~is_tag /\ name # "event.type"
        THEN FragList(<<is_null_condition, condition>>)
        ELSE FragCond(condition)

\* resolve_field(name).aggregate[-1]: the alias of an aggregate function
AggregateAlias(name) == name

convert_aggregate_filter_to_snuba_query(aggregate_filter, e, h) ==
    LET name == aggregate_filter.key.name
    IN  IF aggregate_filter.operator \in {"=", "!="} /\ IsEmptyValue(aggregate_filter)
        THEN Cond(Call("isNull", <<Col(name)>>), aggregate_filter.operator, Num(1))
        ELSE Cond(Col(AggregateAlias(name)), aggregate_filter.operator,
                  Rhs(aggregate_filter, h))

\* what to_list / format_search_filter hand back as group_ids: None, the list
\* object owned by term `ref`, or a new list
NoGroupIds == [kind |-> "None", ref |-> 0, list |-> <<>>]
AliasGroupIds(ref) == [kind |-> "alias", ref |-> ref, list |-> <<>>]
FreshGroupIds(l) == [kind |-> "fresh", ref |-> 0, list |-> l]

to_list(term) ==
    IF term.value.kind = "ids"
    THEN IF term.oid # 0 THEN AliasGroupIds(term.oid) ELSE FreshGroupIds(term.value.ids)
    ELSE FreshGroupIds(<<term.value.n>>)

\* pref # 0: projects_to_filter is the list object heap[pref]
Formatted(err, conditions, projects_to_filter, pref, group_ids, h) ==
    [err |-> err, conditions |-> conditions, projects_to_filter |-> projects_to_filter,
     pref |-> pref, group_ids |-> group_ids, heap |-> h]

\* if converted_filter: conditions.append(converted_filter)
AppendConverted(converted_filter, h) ==
    IF converted_filter.kind = "error"
    THEN Formatted(converted_filter.err, <<>>, <<>>, 0, NoGroupIds, h)
    ELSE IF FragTruthy(converted_filter)
    THEN Formatted("", <<converted_filter>>, <<>>, 0, NoGroupIds, h)
    ELSE Formatted("", <<>>, <<>>, 0, NoGroupIds, h)

\* converted_filter = convert_search_filter_to_snuba_query(term, params=params)
\* if converted_filter: conditions.append(converted_filter)
FormatConverted(term, e, h) ==
    AppendConverted(convert_search_filter_to_snuba_query(term, e, h), h)

\* variant: an equality issue.id term hands back its list as group ids and
\* also keeps its condition, which holds the same list
FormatIssueIdKeepingCondition(term, e, h) ==
    IF term.operator \in EQUALITY_OPERATORS
    THEN Formatted("", FormatConverted(term, e, h).conditions, <<>>, 0, to_list(term), h)
    ELSE FormatConverted(term, e, h)

\* the branch `name == ISSUE_ID_ALIAS and value != ""`
FormatIssueId(term, e, h) ==
    IF term.operator \in EQUALITY_OPERATORS
    THEN Formatted("", <<>>, <<>>, 0, to_list(term), h)
    ELSE FormatConverted(term, e, h)

\* the project ids of the slugs of a project term that are in the selected
\* projects, sorted
ProjectIds(term, e) ==
    LET slugs == IF term.value.kind = "slugs" THEN SeqToSet(term.value.slugs)
                 ELSE {term.value.s}
    IN  Ascending({ProjectTable[sl] :
                     sl \in {x \in slugs \cap DOMAIN ProjectTable :
                                ProjectTable[x] \in SeqToSet(e.params.project_id)}})

\* missing = [slug for slug in slugs if slug not in projects]
MissingSlugs(term, e) ==
    LET slugs == IF term.value.kind = "slugs" THEN SeqToSet(term.value.slugs)
                 ELSE {term.value.s}
    IN  {sl \in slugs : ~(/\ sl \in DOMAIN ProjectTable
                          /\ ProjectTable[sl] \in SeqToSet(e.params.project_id))}

\* SearchFilter(SearchKey("project_id"), term.operator,
\*              SearchValue(project_ids if term.is_in_filter else project_ids[0]))
\* obj: the list object project_ids
ProjectIdTerm(term, project_ids, obj) ==
    [SearchFilter(SearchKey("project_id", FALSE), term.operator,
                  IF is_in_filter(term) THEN IdsV(project_ids)
                  ELSE IdV(IF Len(project_ids) > 0 THEN project_ids[1] ELSE 0))
     EXCEPT !.oid = IF is_in_filter(term) THEN obj ELSE 0]

\* the branch `name in (PROJECT_ALIAS, PROJECT_NAME_ALIAS)` from `missing` on;
\* h1: the heap with the new list object obj = project_ids
AppendProject(term, missing, project_ids, obj, converted_filter, h, h1) ==
    IF missing # {} /\ term.operator \in EQUALITY_OPERATORS
    THEN Formatted("InvalidSearchQuery", <<>>, <<>>, 0, NoGroupIds, h)
    ELSE IF Len(project_ids) > 0 /\ FragTruthy(converted_filter)
    THEN Formatted("", <<converted_filter>>,
                   \* projects_to_filter = project_ids
                   IF term.operator \in EQUALITY_OPERATORS THEN project_ids ELSE <<>>,
                   IF term.operator \in EQUALITY_OPERATORS THEN obj ELSE 0,
                   NoGroupIds, h1)
    ELSE Formatted("", <<>>, <<>>, 0, NoGroupIds, h)

\* project_ids = list(sorted(projects.values())) is a new list object
FormatProject(term, project_ids, obj, e, h, h1) ==
    AppendProject(term, MissingSlugs(term, e), project_ids, obj,
                  convert_search_filter_to_snuba_query(
                      ProjectIdTerm(term, project_ids, obj), e, h1),
                  h, h1)

\* value = to_list(value) of a term with string values
ValueList(term) == IF term.value.kind = "slugs" THEN term.value.slugs ELSE <<term.value.s>>

\* not v or v == "unknown"
IsNoIssue(v) == v = "" \/ v = "unknown"

\* group_short_ids = [v for v in value if v and v != "unknown"]
GroupShortIds(term) == {v \in SeqToSet(ValueList(term)) : ~IsNoIssue(v)}

\* group_short_ids and params and "organization_id" in params
LooksUpGroups(term, e) == GroupShortIds(term) # {} /\ ~NoOrganization(e.params)

\* filter_values: one "" (held as 0, the id no group has) for each value that
\* names no issue, then the sorted ids of the groups found
FilterValues(term, e) ==
    [i \in 1..Len(SelectSeq(ValueList(term), IsNoIssue)) |-> 0]
    \o (IF LooksUpGroups(term, e)
        THEN Ascending({GroupTable[sh] : sh \in GroupShortIds(term) \cap DOMAIN GroupTable})
        ELSE <<>>)

\* SearchFilter(SearchKey("issue.id"), operator,
\*              SearchValue(filter_values if term.is_in_filter else filter_values[0]))
IssueIdTerm(term, filter_values) ==
    SearchFilter(SearchKey(ISSUE_ID_ALIAS, FALSE), term.operator,
                 IF is_in_filter(term) THEN IdsV(filter_values)
                 ELSE IF filter_values[1] = 0 THEN StrV("")
                 ELSE IdV(filter_values[1]))

\* converted_filter = convert_search_filter_to_snuba_query(term)
\* conditions.append(converted_filter)
AppendIssue(converted_filter, h) ==
    IF converted_filter.kind = "error"
    THEN Formatted(converted_filter.err, <<>>, <<>>, 0, NoGroupIds, h)
    ELSE Formatted("", <<converted_filter>>, <<>>, 0, NoGroupIds, h)

\* the branch `name == ISSUE_ALIAS`
FormatIssue(term, filter_values, e, h) ==
    IF /\ LooksUpGroups(term, e)
       /\ ~(GroupShortIds(term) \subseteq DOMAIN GroupTable)
       /\ e.lookup_raises
    THEN Formatted("InvalidSearchQuery", <<>>, <<>>, 0, NoGroupIds, h)
    \* filter_values[0] of an empty list
    ELSE IF ~is_in_filter(term) /\ Len(filter_values) = 0
    THEN Formatted("IndexError", <<>>, <<>>, 0, NoGroupIds, h)
    ELSE AppendIssue(convert_search_filter_to_snuba_query(
                         IssueIdTerm(term, filter_values), e, h), h)

format_search_filter(term, e, h) ==
    IF term.key.name \in {PROJECT_ALIAS, PROJECT_NAME_ALIAS}
    THEN
      IF term.operator = "=" /\ IsEmptyValue(term)
      THEN Formatted("InvalidSearchQuery", <<>>, <<>>, 0, NoGroupIds, h)
      ELSE FormatProject(term, ProjectIds(term, e), 0 - term.oid, e, h,
                         [h EXCEPT ![0 - term.oid] = ProjectIds(term, e)])
    ELSE IF term.key.name = ISSUE_ID_ALIAS /\ ~IsEmptyValue(term)
    THEN FormatIssueId(term, e, h)
    ELSE IF term.key.name = ISSUE_ALIAS
    THEN FormatIssue(term, FilterValues(term, e), e, h)
    ELSE FormatConverted(term, e, h)

-----------------------------------------------------------------------------
(* Boolean tree builder *)

\* the outcome of a (sub-)compile: the exception raised, if any, the two
\* trees, the two side lists (pref / gref # 0: the list is the list object
\* heap[pref] / heap[gref]), the heap it leaves behind and the number of leaf
\* terms handed to a converter so far
Outcome(err, cond, having, projects, pref, gids, gref, h, n) ==
    [err |-> err, condition |-> cond, having |-> having,
     projects_to_filter |-> projects, pref |-> pref,
     group_ids |-> gids, gref |-> gref, heap |-> h, nconv |-> n]

Raise(err, h, n) == Outcome(err, NoneT, NoneT, <<>>, 0, <<>>, 0, h, n)

Truthy(tree) == tree # NoneT

\* the sanitisation loop: "Missing condition in between two condition
\* operators", "Condition is missing on the left side", "... right side"
Malformed(ts) ==
    \/ is_operator(ts[1])
    \/ \E i \in 2..Len(ts) : is_operator(ts[i - 1]) /\ is_operator(ts[i])
    \/ is_operator(ts[Len(ts)])

IsNotAnd(t) == t # AND

\* variant: the split at the last OR instead of the first
IndexOfOrLast(ts) ==
    IF \E i \in 1..Len(ts) : ts[i] = OR
    THEN CHOOSE i \in 1..Len(ts) : ts[i] = OR /\ \A j \in (i + 1)..Len(ts) : ts[j] # OR
    ELSE 0

\* terms.index(SearchBoolean.BOOLEAN_OR), 0 when it raises ValueError
IndexOfOr(ts) ==
    IF \E i \in 1..Len(ts) : ts[i] = OR
    THEN CHOOSE i \in 1..Len(ts) : ts[i] = OR /\ \A j \in 1..(i - 1) : ts[j] # OR
    ELSE 0

\* variant: the right side's list in front of the left side's
ExtendReversed(lhs_list, rhs_list) == rhs_list \o lhs_list

\* lhs_list.extend(rhs_list): the content of lhs_list afterwards
Extend(lhs_list, rhs_list) == lhs_list \o rhs_list

\* variant: both sides kept as children whenever one of them is a tree
CombineKeepingNone(operator, lhs, rhs) ==
    IF Truthy(lhs) \/ Truthy(rhs) THEN Call(operator, <<lhs, rhs>>) ELSE NoneT

\* list(filter(None, [lhs, rhs])) joined under `operator`
Combine(operator, lhs, rhs) ==
    IF Truthy(lhs) /\ Truthy(rhs) THEN Call(operator, <<lhs, rhs>>)
    ELSE IF Truthy(lhs) THEN lhs
    ELSE IF Truthy(rhs) THEN rhs
    ELSE NoneT

\* conditions -> conditions_to_and -> condition_tree
ConditionTree(conditions) ==
    LET conditions_to_and ==
            [i \in 1..Len(conditions) |->
                IF is_condition(conditions[i])
                THEN convert_condition_to_function(conditions[i].conds[1])
                ELSE convert_array_to_tree(SNUBA_OR,
                        [j \in 1..Len(conditions[i].conds) |->
                            convert_condition_to_function(conditions[i].conds[j])])]
    IN  convert_array_to_tree(SNUBA_AND, conditions_to_and)

\* variant: the converted aggregate filter returned in the condition slot
AggregateOutcomeAsCondition(converted_filter, h, n) ==
    Outcome("", convert_condition_to_function(converted_filter), NoneT,
            <<>>, 0, <<>>, 0, h, n + 1)

\* return None, convert_condition_to_function(converted_filter),
\*        projects_to_filter, group_ids
AggregateOutcome(converted_filter, h, n) ==
    Outcome("", NoneT, convert_condition_to_function(converted_filter),
            <<>>, 0, <<>>, 0, h, n + 1)

\* variant: the tree of a single term wrapped in an AND node of its own
FilterOutcomeWrapped(f, h, n) ==
    IF f.err # "" THEN Raise(f.err, h, n + 1)
    ELSE Outcome("",
                 IF Len(f.conditions) > 0
                 THEN Call(SNUBA_AND, <<ConditionTree(f.conditions)>>) ELSE NoneT,
                 NoneT, f.projects_to_filter, f.pref,
                 IF f.group_ids.kind = "alias" THEN h[f.group_ids.ref] ELSE f.group_ids.list,
                 0, f.heap, n + 1)

\* the SearchFilter branch after
\* conditions, projects_to_filter, group_ids = format_search_filter(term, params)
FilterOutcome(f, h, n) ==
    LET \* group_ids if group_ids else []
        keep == f.group_ids.kind = "alias" /\ Len(h[f.group_ids.ref]) > 0
        gref == IF keep THEN f.group_ids.ref ELSE 0
        gids == IF keep THEN h[f.group_ids.ref] ELSE f.group_ids.list
    IN  IF f.err # "" THEN Raise(f.err, h, n + 1)
        ELSE IF Len(f.conditions) > 0
        THEN Outcome("", ConditionTree(f.conditions), NoneT,
                     f.projects_to_filter, f.pref, gids, gref, f.heap, n + 1)
        ELSE Outcome("", NoneT, NoneT, f.projects_to_filter, f.pref, gids, gref,
                     f.heap, n + 1)

RECURSIVE convert_search_boolean_to_snuba_query(_, _, _, _)
RECURSIVE convert_snuba_condition_to_function(_, _, _, _)

convert_snuba_condition_to_function(term, e, h, n) ==
    IF term.type = "ParenExpression"
    THEN convert_search_boolean_to_snuba_query(term.children, e, h, n)
    ELSE IF term.type = "SearchFilter"
    THEN FilterOutcome(format_search_filter(term, e, h), h, n)
    ELSE IF term.type = "AggregateFilter"
    THEN AggregateOutcome(convert_aggregate_filter_to_snuba_query(term, e, h), h, n)
    ELSE Outcome("", NoneT, NoneT, <<>>, 0, <<>>, 0, h, n)

\* lines 813-838: the right side's lists merged into the left side's, in
\* place, the mixed-tree test, and the two trees joined
Merge(operator, l, r) ==
    LET \* projects_to_filter.extend(rhs_projects_to_filter), in place
        lhs_projects == IF l.pref # 0 THEN r.heap[l.pref] ELSE l.projects_to_filter
        rhs_projects == IF r.pref # 0 THEN r.heap[r.pref] ELSE r.projects_to_filter
        projects_to_filter == Extend(lhs_projects, rhs_projects)
        h1 == IF l.pref # 0 THEN [r.heap EXCEPT ![l.pref] = projects_to_filter]
              ELSE r.heap
        \* group_ids.extend(rhs_group_ids), in place
        lhs_group_ids == IF l.gref # 0 THEN h1[l.gref] ELSE l.group_ids
        rhs_group_ids == IF r.gref # 0 THEN h1[r.gref] ELSE r.group_ids
        group_ids == Extend(lhs_group_ids, rhs_group_ids)
        h2 == IF l.gref # 0 THEN [h1 EXCEPT ![l.gref] = group_ids] ELSE h1
    IN  IF /\ operator = SNUBA_OR
           /\ (Truthy(l.condition) \/ Truthy(r.condition))
           /\ (Truthy(l.having) \/ Truthy(r.having))
        THEN Raise("MixedTreeError", h2, r.nconv)
        ELSE Outcome("",
                     Combine(operator, l.condition, r.condition),
                     Combine(operator, l.having, r.having),
                     projects_to_filter, l.pref, group_ids, l.gref, h2, r.nconv)

\* both sides converted: an exception of the right side ends the call
RightDone(operator, l, r) == IF r.err # "" THEN r ELSE Merge(operator, l, r)

\* lines 800-811: the right side is converted after the left side, on the
\* heap the left side left; an exception of either side ends the call
ThenRight(operator, l, rhs, e) ==
    IF l.err # "" THEN l
    ELSE RightDone(operator, l,
                   convert_search_boolean_to_snuba_query(rhs, e, l.heap, l.nconv))

\* lines 789-798: split at the first OR, else split the first term off
SplitTerms(new_terms, index, e, h, n) ==
    IF index # 0
    THEN ThenRight(SNUBA_OR,
                   convert_search_boolean_to_snuba_query(
                       SubSeq(new_terms, 1, index - 1), e, h, n),
                   SubSeq(new_terms, index + 1, Len(new_terms)), e)
    ELSE ThenRight(SNUBA_AND,
                   convert_search_boolean_to_snuba_query(
                       SubSeq(new_terms, 1, 1), e, h, n),
                   SubSeq(new_terms, 2, Len(new_terms)), e)

\* a sequence with the children of its Groups, less their ANDs, in the
\* Groups' places
RECURSIVE Spliced(_)
Spliced(ts) ==
    IF Len(ts) = 0 THEN <<>>
    ELSE (IF Head(ts).type = "ParenExpression"
          THEN SelectSeq(Head(ts).children, IsNotAnd) ELSE <<Head(ts)>>)
         \o Spliced(Tail(ts))

\* variant: a Group's children take part in the split of the parent sequence
SanitizedSpliced(new_terms, e, h, n) ==
    SplitTerms(Spliced(new_terms), IndexOfOr(Spliced(new_terms)), e, h, n)

\* terms = new_terms, the sequence without its ANDs
Sanitized(new_terms, e, h, n) ==
    SplitTerms(new_terms, IndexOfOr(new_terms), e, h, n)

convert_search_boolean_to_snuba_query(ts, e, h, n) ==
    IF Len(ts) = 1 THEN convert_snuba_condition_to_function(ts[1], e, h, n)
    \* an empty sequence splits into two empty sequences, without end
    ELSE IF Len(ts) = 0 THEN Raise("RecursionError", h, n)
    ELSE IF Malformed(ts) THEN Raise("SyntaxError", h, n)
    ELSE Sanitized(SelectSeq(ts, IsNotAnd), e, h, n)

\* a tree as its holder reads it: every list object replaced by its content
RECURSIVE Resolve(_, _)
Resolve(x, h) ==
    IF "lref" \in DOMAIN x THEN Lst(h[x.lref])
    ELSE IF "fn" \in DOMAIN x
    THEN Call(x.fn, [i \in 1..Len(x.args) |-> Resolve(x.args[i], h)])
    ELSE x

-----------------------------------------------------------------------------
(* Inputs: what the query parser hands over *)

\* longest flat sequence / group body enumerated in full
MaxLen == 3
\* most operands of a well-formed chain
MaxOperands == 4
\* compile calls made on one parsed query
MaxCalls == 2

tA == SearchFilter(SearchKey("browser", TRUE), "=", StrV("a"))
tB == SearchFilter(SearchKey("title", FALSE), "!=", StrV("b"))
tI == SearchFilter(SearchKey(ISSUE_ID_ALIAS, FALSE), "IN", IdsV(<<1, 2>>))
tJ == SearchFilter(SearchKey(ISSUE_ID_ALIAS, FALSE), "NOT IN", IdsV(<<2>>))
tK == SearchFilter(SearchKey(ISSUE_ID_ALIAS, FALSE), "=", IdV(3))
tP == SearchFilter(SearchKey(PROJECT_ALIAS, FALSE), "IN", SlugsV(<<"a", "b">>))
tE == SearchFilter(SearchKey(PROJECT_NAME_ALIAS, FALSE), "=", StrV("a"))
tQ == SearchFilter(SearchKey(PROJECT_ALIAS, FALSE), "!=", StrV("b"))
tH == AggregateFilter(SearchKey("count()", FALSE), ">", IdV(5))
tN == SearchFilter(SearchKey("start", FALSE), "=", StrV("x"))
tZ == SearchFilter(SearchKey(ISSUE_ID_ALIAS, FALSE), "=", StrV(""))

Leaves == {tA, tB, tI, tJ, tK, tP, tE, tQ, tH, tN, tZ}
FlatLeaves == {tA, tB, tI, tK, tP, tH, tN}
ChainLeaves == {tA, tB, tP}
GroupLeaves == {tA, tH, tI, tP}

SeqsUpTo(S, n) == UNION {[1..k -> S] : k \in 1..n}

\* well-formed chains of n operands joined by AND or OR
RECURSIVE ChainsOf(_, _)
ChainsOf(S, n) ==
    IF n = 1 THEN {<<x>> : x \in S}
    ELSE {c \o <<j, x>> : c \in ChainsOf(S, n - 1), j \in {AND, OR}, x \in S}

\* every sequence, well-formed or not, of up to MaxLen items
FlatInputs == SeqsUpTo(FlatLeaves \cup {AND, OR}, MaxLen)
\* every term alone and every two terms, adjacent or joined
PairInputs ==
    {<<x>> : x \in Leaves \cup {AND, OR}}
    \cup {<<x, y>> : x, y \in Leaves}
    \cup {<<x, j, y>> : x, y \in Leaves, j \in {AND, OR}}
ChainInputs == UNION {ChainsOf(ChainLeaves, n) : n \in 1..MaxOperands}
GroupBodies == {<<>>} \cup SeqsUpTo(GroupLeaves \cup {AND, OR}, MaxLen)
GroupInputs ==
    {<<ParenExpression(g)>> : g \in GroupBodies}
    \cup {<<xj[1], xj[2], ParenExpression(g)>> :
            xj \in {<<tA, AND>>, <<tH, AND>>, <<tH, OR>>, <<tI, AND>>, <<tP, AND>>},
            g \in GroupBodies}
    \cup {<<ParenExpression(g), jx[1], jx[2]>> :
            jx \in {<<OR, tH>>, <<AND, tI>>}, g \in GroupBodies}
    \cup {<<x, ParenExpression(<<ParenExpression(g), j, y>>)>> :
            x \in {tH, tI}, y \in {tA, tI}, j \in {AND, OR},
            g \in SeqsUpTo({tA, tH, tI, OR}, MaxLen - 1)}

Inputs == {<<>>} \cup FlatInputs \cup PairInputs \cup ChainInputs \cup GroupInputs

\* object identity: the parser makes one object per leaf term; a leaf's id
\* is its path in the query
RECURSIVE Tag(_, _)
Tag(ts, prefix) ==
    [i \in 1..Len(ts) |->
        IF ts[i].type = "ParenExpression"
        THEN [ts[i] EXCEPT !.children = Tag(ts[i].children, (prefix + i) * 10)]
        ELSE IF ts[i].type = "SearchBoolean" THEN ts[i]
        ELSE [ts[i] EXCEPT !.oid = prefix + i]]

RECURSIVE AllLeaves(_)
AllLeaves(ts) ==
    UNION {IF ts[i].type = "ParenExpression" THEN AllLeaves(ts[i].children)
           ELSE IF ts[i].type = "SearchBoolean" THEN {}
           ELSE {ts[i]} : i \in 1..Len(ts)}

\* the value lists the parsed terms own
ParsedHeap(ts) ==
    LET owners == {t \in AllLeaves(ts) : t.value.kind = "ids"}
    IN  [o \in {t.oid : t \in owners} |->
            (CHOOSE t \in owners : t.oid = o).value.ids]

\* the heap of one call: the terms' lists and room for the lists it makes
CallHeap(ts, h) ==
    [o \in DOMAIN h \cup {0 - t.oid : t \in AllLeaves(ts)} |->
        IF o \in DOMAIN h THEN h[o] ELSE <<>>]

CompileParams == [given |-> TRUE, organization_id |-> 1, project_id |-> <<1, 2>>]

IdleFilter == SearchFilter(SearchKey("", FALSE), "", StrV(""))
IdleResult == Raised("idle", 0)

\* the outcome of a term converter call: which function was called and what
\* it returned or raised
Conversion(call, frag, formatted) == [call |-> call, frag |-> frag, formatted |-> formatted]
IdleConversion == Conversion("idle", FragNone, Formatted("", <<>>, <<>>, 0, NoGroupIds, <<>>))

-----------------------------------------------------------------------------
(* The compiler entry point, called on a parsed query *)

Init ==
    /\ terms \in {Tag(ts, 0) : ts \in Inputs}
    /\ heap = ParsedHeap(terms)
    /\ results = <<>>
    /\ store = [v \in Versions |-> 1]
    /\ sfilter = IdleFilter
    /\ sparams = CompileParams
    /\ sresult = IdleResult
    /\ cterm = IdleFilter
    /\ cenv = Env(CompileParams, store, FALSE)
    /\ cresult = IdleConversion

\* one call of convert_search_boolean_to_snuba_query(terms, params); the
\* caller keeps what it returned (the trees as it reads them after the return,
\* and as object graphs: tree, htree) and, for the record, the heap the call
\* started from
Compile ==
    /\ Len(results) < MaxCalls
    /\ LET out == convert_search_boolean_to_snuba_query(
                      terms, Env(CompileParams, store, FALSE), CallHeap(terms, heap), 0)
       IN  /\ results' = Append(results,
                 [err |-> out.err,
                  condition |-> Resolve(out.condition, out.heap),
                  having |-> Resolve(out.having, out.heap),
                  tree |-> out.condition,
                  htree |-> out.having,
                  projects_to_filter |-> out.projects_to_filter,
                  group_ids |-> out.group_ids,
                  nconv |-> out.nconv,
                  pre |-> heap])
           /\ heap' = [o \in DOMAIN heap |-> out.heap[o]]
    /\ UNCHANGED <<terms, store, sfilter, sparams, sresult, cterm, cenv, cresult>>

Next == Compile

Spec == Init /\ [][Next]_vars

-----------------------------------------------------------------------------
(* The release converters, called on one release term *)

Operators == {"=", "!=", "<", "<=", ">", ">=", "IN", "NOT IN"}

StageFilters ==
    {SearchFilter(SearchKey(RELEASE_STAGE_ALIAS, FALSE), op, StrV(st)) :
        op \in {"=", "!="}, st \in {"adopted", "replaced"}}
    \cup {SearchFilter(SearchKey(RELEASE_STAGE_ALIAS, FALSE), op, SlugsV(l)) :
        op \in {"IN", "NOT IN"}, l \in {<<"replaced">>, <<"adopted", "low_adoption">>}}

SemverValues ==
    {VerV(pk, <<v, 0, 0, 0>>, "", TRUE) : pk \in {"", "pkgA"}, v \in Versions}
    \cup {VerV("", <<WildcardSeg>>, "", FALSE), VerV("pkgB", <<2, WildcardSeg>>, "", FALSE),
          VerV("", <<1, TextSeg>>, "", FALSE)}
    \cup {VerV(SEMVER_FAKE_PACKAGE, <<1, WildcardSeg>>, "", FALSE),
          VerV("pkgA", <<>>, "", FALSE),
          VerV("", <<WildcardSeg, TextSeg>>, "", FALSE),
          VerV("", <<1, WildcardSeg, TextSeg>>, "", FALSE),
          VerV("", <<1, 2, 3, WildcardSeg>>, "", FALSE),
          VerV("", <<1, 2, 3, 4>>, "", FALSE),
          VerV("", <<1, 2, 3, 4, WildcardSeg>>, "", FALSE)}

SemverFilters ==
    {SearchFilter(SearchKey(SEMVER_ALIAS, FALSE), op, v) : op \in Operators, v \in SemverValues}

PackageFilters ==
    {SearchFilter(SearchKey(SEMVER_PACKAGE_ALIAS, FALSE), op, StrV(pk)) :
        op \in {"=", "!="}, pk \in {"pkgA", "pkgB", "pkgC"}}

BuildFilters ==
    {SearchFilter(SearchKey(SEMVER_BUILD_ALIAS, FALSE), op, IdV(b)) :
        op \in Operators, b \in 0..2}

ReleaseFilters == StageFilters \cup SemverFilters \cup PackageFilters \cup BuildFilters

ReleaseParams ==
    {[given |-> FALSE, organization_id |-> 0, project_id |-> <<>>],
     [given |-> TRUE, organization_id |-> 0, project_id |-> <<1>>],
     [given |-> TRUE, organization_id |-> 1, project_id |-> <<>>],
     [given |-> TRUE, organization_id |-> 1, project_id |-> <<1>>]}

InitRelease ==
    /\ terms = <<>>
    /\ heap = ParsedHeap(terms)
    /\ results = <<>>
    /\ store \in [Versions -> 0..2]
    /\ sfilter \in ReleaseFilters
    /\ sparams \in ReleaseParams
    /\ sresult = IdleResult
    /\ cterm = IdleFilter
    /\ cenv = Env(CompileParams, store, FALSE)
    /\ cresult = IdleConversion

Pending(name) == sresult = IdleResult /\ sfilter.key.name = name

ReleaseStage ==
    /\ Pending(RELEASE_STAGE_ALIAS)
    /\ sresult' = release_stage_filter_converter(sfilter, sfilter.key.name, sparams, store)
    /\ UNCHANGED <<terms, heap, results, store, sfilter, sparams, cterm, cenv, cresult>>

Semver ==
    /\ Pending(SEMVER_ALIAS)
    /\ sresult' = semver_filter_converter(sfilter, sfilter.key.name, sparams, store)
    /\ UNCHANGED <<terms, heap, results, store, sfilter, sparams, cterm, cenv, cresult>>

SemverPackage ==
    /\ Pending(SEMVER_PACKAGE_ALIAS)
    /\ \E rows_descending \in BOOLEAN :
          sresult' = semver_package_filter_converter(sfilter, sfilter.key.name, sparams,
                                                     store, rows_descending)
    /\ UNCHANGED <<terms, heap, results, store, sfilter, sparams, cterm, cenv, cresult>>

SemverBuild ==
    /\ Pending(SEMVER_BUILD_ALIAS)
    /\ \E rows_descending \in BOOLEAN :
          sresult' = semver_build_filter_converter(sfilter, sfilter.key.name, sparams,
                                                   store, rows_descending)
    /\ UNCHANGED <<terms, heap, results, store, sfilter, sparams, cterm, cenv, cresult>>

NextRelease == ReleaseStage \/ Semver \/ SemverPackage \/ SemverBuild

SpecRelease == InitRelease /\ [][NextRelease]_vars

-----------------------------------------------------------------------------
(* The term converter, called on one term *)

\* longest raw string of a wildcard value
MaxRaw == 3

RawChars == {"a", "*", "%", "_", Backslash}

\* the raw strings that hold a wildcard
WildcardRaws == {r \in SeqsUpTo(RawChars, MaxRaw) : \E i \in 1..Len(r) : r[i] = "*"}

EnvironmentTerms ==
    {SearchFilter(SearchKey("environment", FALSE), op, v) :
        op \in {"=", "!=", "IN", "NOT IN"},
        v \in {StrV(""), StrV("prod"), StrsV(<<>>), StrsV(<<"">>), StrsV(<<"prod">>),
               StrsV(<<"", "prod">>), StrsV(<<"prod", "">>), StrsV(<<"prod", "dev">>),
               StrsV(<<"", "prod", "dev">>)}}

HandledTerms ==
    {SearchFilter(SearchKey(nm, FALSE), op, v) :
        nm \in {"error.handled", ERROR_UNHANDLED_ALIAS},
        op \in {"=", "!="},
        v \in {StrV("1"), StrV("0"), StrV("2"), StrV("true"), StrV(""),
               IdV(1), IdV(0), IdV(2)}}
    \cup {SearchFilter(SearchKey(nm, FALSE), "IN", StrsV(<<"1">>)) :
            nm \in {"error.handled", ERROR_UNHANDLED_ALIAS}}

ArrayTerms ==
    {SearchFilter(SearchKey(nm, FALSE), op, WildV(r)) :
        nm \in {"error.type", "title"}, op \in {"=", "!="}, r \in WildcardRaws}
    \cup {SearchFilter(SearchKey("stack.filename", FALSE), op, v) :
            op \in {"=", "!="}, v \in {StrV(""), StrV("a.py")}}
    \cup {SearchFilter(SearchKey("stack.filename", FALSE), op, StrsV(<<"a.py", "b.py">>)) :
            op \in {"IN", "NOT IN"}}
    \cup {SearchFilter(SearchKey("error.type", FALSE), op, WildV(<<"a", "*">>)) :
            op \in {"IN", "NOT IN"}}

ProjectTerms ==
    {SearchFilter(SearchKey(nm, FALSE), op, v) :
        nm \in {PROJECT_ALIAS, PROJECT_NAME_ALIAS},
        op \in {"=", "!=", "IN", "NOT IN"},
        v \in {StrV(""), StrV("a"), StrV("c"), StrV("zz"), StrsV(<<"a", "b">>),
               StrsV(<<"a", "zz">>), StrsV(<<"zz">>)}}

IssueTerms ==
    {SearchFilter(SearchKey(ISSUE_ALIAS, FALSE), op, v) :
        op \in {"=", "!=", "IN", "NOT IN"},
        v \in {StrV(""), StrV("unknown"), StrV("P-1"), StrV("X-9"),
               StrsV(<<"P-2", "P-1">>), StrsV(<<"P-1", "X-9">>), StrsV(<<"X-9">>),
               StrsV(<<"unknown", "P-1">>)}}

MessageTerms ==
    {SearchFilter(SearchKey("message", FALSE), op, v) :
        op \in {"=", "!="}, v \in {StrV(""), StrV("foo"), WildV(<<"f", "*">>)}}
    \cup {SearchFilter(SearchKey("message", FALSE), "IN", StrsV(<<"foo", "bar">>))}

StatusTerms ==
    {SearchFilter(SearchKey(TRANSACTION_STATUS_ALIAS, FALSE), op, v) :
        op \in {"=", "!="}, v \in {StrV(""), StrV("ok"), StrV("cancelled"), StrV("bogus")}}
    \cup {SearchFilter(SearchKey(TRANSACTION_STATUS_ALIAS, FALSE), op, StrsV(l)) :
            op \in {"IN", "NOT IN"},
            l \in {<<"ok", "cancelled">>, <<"unknown">>, <<"ok", "bogus">>,
                   <<"bogus", "ok">>, <<"", "ok">>}}

TeamKeyTerms ==
    {SearchFilter(SearchKey(TEAM_KEY_TRANSACTION_ALIAS, FALSE), op, v) :
        op \in {"=", "!="},
        v \in {StrV("1"), StrV("0"), StrV("2"), StrV("true"), StrV(""),
               IdV(1), IdV(0), IdV(2)}}

\* terms on a tag, on a nullable column and on event.type
GenericTerms ==
    {SearchFilter(SearchKey(nm[1], nm[2]), op, v) :
        nm \in {<<"browser", TRUE>>, <<"title", FALSE>>, <<"event.type", FALSE>>},
        op \in {"=", "!="},
        v \in {StrV(""), StrV("b"), WildV(<<"b", "*">>)}}
    \cup {SearchFilter(SearchKey(nm[1], nm[2]), op, StrsV(<<"a", "b">>)) :
            nm \in {<<"browser", TRUE>>, <<"title", FALSE>>, <<"event.type", FALSE>>},
            op \in {"IN", "NOT IN"}}

TermInputs ==
    EnvironmentTerms \cup HandledTerms \cup ArrayTerms \cup ProjectTerms
    \cup IssueTerms \cup MessageTerms \cup StatusTerms \cup TeamKeyTerms
    \cup GenericTerms \cup Leaves

NoParams == [given |-> FALSE, organization_id |-> 0, project_id |-> <<>>]

InitTerm ==
    /\ terms = <<>>
    /\ store = [v \in Versions |-> 1]
    /\ cterm \in {Tag(<<t>>, 0)[1] : t \in TermInputs}
    /\ heap = ParsedHeap(<<cterm>>)
    /\ results = <<>>
    /\ sfilter = IdleFilter
    /\ sparams = CompileParams
    /\ sresult = IdleResult
    /\ cenv \in {EnvWithLookup(ps, store, FALSE, lookup_raises) :
                    ps \in {CompileParams, NoParams}, lookup_raises \in BOOLEAN}
    /\ cresult = IdleConversion

\* one call of convert_search_filter_to_snuba_query(cterm, params=params)
ConvertTerm ==
    /\ cresult = IdleConversion
    /\ cresult' = Conversion("convert",
                       convert_search_filter_to_snuba_query(
                           cterm, cenv, CallHeap(<<cterm>>, heap)),
                       IdleConversion.formatted)
    /\ UNCHANGED <<terms, heap, results, store, sfilter, sparams, sresult, cterm, cenv>>

\* one call of format_search_filter(cterm, params)
FormatTerm ==
    /\ cresult = IdleConversion
    /\ cresult' = Conversion("format", FragNone,
                       format_search_filter(cterm, cenv, CallHeap(<<cterm>>, heap)))
    /\ UNCHANGED <<terms, heap, results, store, sfilter, sparams, sresult, cterm, cenv>>

NextTerm == ConvertTerm \/ FormatTerm

SpecTerm == InitTerm /\ [][NextTerm]_vars

-----------------------------------------------------------------------------
(* Properties of the boolean tree builder *)

CompileEnv == Env(CompileParams, store, FALSE)

Calls == 1..Len(results)

\* the heap call k started from
LeafHeap(k) == CallHeap(terms, results[k].pre)

\* the condition tree of one leaf term converted on its own
LeafTree(t, k) ==
    convert_snuba_condition_to_function(t, CompileEnv, LeafHeap(k), 0).condition

\* a connective first, last or next to another connective
ConnectiveMisplaced(ts) ==
    \E i \in 1..Len(ts) :
        is_operator(ts[i]) /\ (i = 1 \/ i = Len(ts) \/ is_operator(ts[i + 1]))

\* the operands of a flat sequence, grouped by the ORs between them
RECURSIVE OrRuns(_)
OrRuns(ts) ==
    IF Len(ts) = 0 THEN << <<>> >>
    ELSE LET rest == OrRuns(Tail(ts))
         IN  IF Head(ts) = OR THEN << <<>> >> \o rest
             ELSE IF Head(ts) = AND THEN rest
             ELSE << <<Head(ts)>> \o rest[1] >> \o Tail(rest)

\* op(t1, op(t2, ... tn))
RECURSIVE RightLeaning(_, _)
RightLeaning(op, trees) ==
    IF Len(trees) = 1 THEN trees[1]
    ELSE Call(op, <<Head(trees), RightLeaning(op, Tail(trees))>>)

\* a valid flat sequence of non-aggregate terms that each yield a condition
FlatConditionInput(k) ==
    /\ Len(terms) >= 1
    /\ \A i \in 1..Len(terms) : terms[i].type \in {"SearchFilter", "SearchBoolean"}
    /\ ~ConnectiveMisplaced(terms)
    /\ \A i \in 1..Len(terms) :
          terms[i].type = "SearchFilter" => LeafTree(terms[i], k) # NoneT

PrecedenceTree(k) ==
    LET runs == OrRuns(terms)
    IN  RightLeaning(SNUBA_OR,
            [i \in 1..Len(runs) |->
                RightLeaning(SNUBA_AND,
                    [j \in 1..Len(runs[i]) |-> LeafTree(runs[i][j], k)])])

FragmentLeaves(k) ==
    {LeafTree(terms[i], k) : i \in {j \in 1..Len(terms) : terms[j].type = "SearchFilter"}}

\* an OR node in `tree` above or at the level of the terms' own fragments
RECURSIVE OrWithin(_, _)
OrWithin(tree, leaves) ==
    /\ tree \notin leaves
    /\ \/ tree.fn = SNUBA_OR
       \/ \E i \in 1..Len(tree.args) : OrWithin(tree.args[i], leaves)

RECURSIVE NoOrUnderAnd(_, _)
NoOrUnderAnd(tree, leaves) ==
    \/ tree \in leaves
    \/ /\ tree.fn \in {SNUBA_AND, SNUBA_OR}
       /\ tree.fn = SNUBA_AND =>
             \A i \in 1..Len(tree.args) : ~OrWithin(tree.args[i], leaves)
       /\ \A i \in 1..Len(tree.args) : NoOrUnderAnd(tree.args[i], leaves)

\* C1: a valid flat sequence of non-aggregate terms that each yield a
\* condition compiles, without error, to the OR (right-leaning, split at the
\* first OR) of the right-leaning ANDs of its OR-free runs, the terms'
\* fragments being the leaves; so no AND node of the tree has an OR node of
\* the tree beneath it.
C1_Precedence ==
    \A k \in Calls :
        FlatConditionInput(k) =>
            /\ results[k].err = ""
            /\ results[k].tree = PrecedenceTree(k)
            /\ NoOrUnderAnd(results[k].tree, FragmentLeaves(k))

\* [A, AND, B, OR, C, AND, D] has been compiled to OR(AND(A, B), AND(C, D))
C1_Example ==
    /\ terms = Tag(<<tA, AND, tB, OR, tP, AND, tA>>, 0)
    /\ Len(results) >= 1
    /\ results[1].tree =
          Call(SNUBA_OR,
               <<Call(SNUBA_AND, <<LeafTree(terms[1], 1), LeafTree(terms[3], 1)>>),
                 Call(SNUBA_AND, <<LeafTree(terms[5], 1), LeafTree(terms[7], 1)>>)>>)

RECURSIVE ContainsAggregate(_)
ContainsAggregate(t) ==
    IF t.type = "ParenExpression"
    THEN \E i \in 1..Len(t.children) : ContainsAggregate(t.children[i])
    ELSE t.type = "AggregateFilter"

RECURSIVE ContainsFilter(_)
ContainsFilter(t) ==
    IF t.type = "ParenExpression"
    THEN \E i \in 1..Len(t.children) : ContainsFilter(t.children[i])
    ELSE t.type = "SearchFilter"

\* non-empty, with every connective between two operands, at every level
RECURSIVE WellFormed(_)
WellFormed(ts) ==
    /\ Len(ts) >= 1
    /\ ~ConnectiveMisplaced(ts)
    /\ \A i \in 1..Len(ts) :
          ts[i].type = "ParenExpression" => WellFormed(ts[i].children)

\* an OR, at any level, with an aggregate term in one operand and a
\* non-aggregate term in the other
RECURSIVE MixedOr(_)
MixedOr(ts) ==
    \E i \in 1..Len(ts) :
        \/ /\ ts[i] = OR
           /\ 1 < i /\ i < Len(ts)
           /\ \/ ContainsAggregate(ts[i - 1]) /\ ContainsFilter(ts[i + 1])
              \/ ContainsFilter(ts[i - 1]) /\ ContainsAggregate(ts[i + 1])
        \/ ts[i].type = "ParenExpression" /\ MixedOr(ts[i].children)

\* C2: whenever an OR joins an operand holding an aggregate term with an
\* operand holding a non-aggregate term, whatever its field, the compile
\* raises "Having an OR between aggregate filters and normal filters is
\* invalid" and returns no trees.
C2_MixedOrRaises ==
    \A k \in Calls :
        (WellFormed(terms) /\ MixedOr(terms)) =>
            /\ results[k].err = "MixedTreeError"
            /\ results[k].condition = NoneT
            /\ results[k].having = NoneT

\* the call nodes of a tree
RECURSIVE TreeNodes(_)
TreeNodes(x) ==
    IF x = NoneT \/ "fn" \notin DOMAIN x THEN {}
    ELSE {x} \cup UNION {TreeNodes(x.args[i]) : i \in 1..Len(x.args)}

AggregateFragments(k) ==
    {convert_condition_to_function(
         convert_aggregate_filter_to_snuba_query(t, CompileEnv, LeafHeap(k))) :
       t \in {u \in AllLeaves(terms) : u.type = "AggregateFilter"}}

FilterFragments(k) ==
    {LeafTree(t, k) : t \in {u \in AllLeaves(terms) : u.type = "SearchFilter"}}

\* C3: after a compile without error, no fragment made from an aggregate
\* term occurs in the condition tree and no fragment made from a
\* non-aggregate term, nor any part of one, occurs in the having tree.
C3_TreesSeparate ==
    \A k \in Calls :
        results[k].err = "" =>
            /\ TreeNodes(results[k].tree) \cap AggregateFragments(k) = {}
            /\ TreeNodes(results[k].htree)
                 \cap UNION {TreeNodes(f) : f \in FilterFragments(k)} = {}

\* an aggregate term AND a Group holding an OR of two filters: both trees
\* are returned, the aggregate's fragment as the having tree
C3_BothTrees ==
    /\ terms = Tag(<<tH, AND, ParenExpression(<<tA, OR, tP>>)>>, 0)
    /\ Len(results) >= 1
    /\ results[1].err = ""
    /\ results[1].htree \in AggregateFragments(1)
    /\ results[1].tree.fn = SNUBA_OR

\* a misplaced connective in the sequence or in a Group of it
RECURSIVE ConnectiveViolation(_)
ConnectiveViolation(ts) ==
    \/ ConnectiveMisplaced(ts)
    \/ \E i \in 1..Len(ts) :
          ts[i].type = "ParenExpression" /\ ConnectiveViolation(ts[i].children)

\* C4: a sequence of length >= 1 in which, at top level or in a Group, a
\* connective is first, last or next to another connective raises the syntax
\* error, and raises it before any of its terms has been converted.
C4_SyntaxErrorFirst ==
    \A k \in Calls :
        ConnectiveViolation(terms) =>
            /\ results[k].err = "SyntaxError"
            /\ results[k].nconv = 0

C6_InputReadOnly ==
    Len(results) >= 1 => heap = ParsedHeap(terms)

FourTuple(r) == <<r.condition, r.having, r.projects_to_filter, r.group_ids>>

\* C7: every compile call of a parsed sequence returns the 4-tuple that a
\* call on its own (the first one made on the parsed terms) returns.
C7_CallsIndependent ==
    \A k \in Calls : FourTuple(results[k]) = FourTuple(results[1])

\* the leaf terms from left to right, those inside Groups in their place
RECURSIVE LeavesInOrder(_)
LeavesInOrder(ts) ==
    IF Len(ts) = 0 THEN <<>>
    ELSE (CASE Head(ts).type = "ParenExpression" -> LeavesInOrder(Head(ts).children)
            [] Head(ts).type = "SearchBoolean" -> <<>>
            [] OTHER -> <<Head(ts)>>)
         \o LeavesInOrder(Tail(ts))

RECURSIVE Concat(_)
Concat(lists) == IF Len(lists) = 0 THEN <<>> ELSE Head(lists) \o Concat(Tail(lists))

SlugsOf(t) == IF t.value.kind = "slugs" THEN SeqToSet(t.value.slugs) ELSE {t.value.s}

\* what a term adds to the project-id list
ProjectIdsOf(t) ==
    IF /\ t.type = "SearchFilter"
       /\ t.key.name \in {"project", "project.name"}
       /\ t.operator \in {"=", "IN"}
    THEN Ascending({ProjectTable[sl] : sl \in SlugsOf(t) \cap DOMAIN ProjectTable})
    ELSE <<>>

\* what a term adds to the group-id list, its value list read from heap h
GroupIdsOf(t, h) ==
    IF /\ t.type = "SearchFilter"
       /\ t.key.name = "issue.id"
       /\ t.operator \in {"=", "IN"}
       /\ ~(t.value.kind = "str" /\ t.value.s = "")
    THEN IF t.value.kind = "ids" THEN h[t.oid] ELSE <<t.value.n>>
    ELSE <<>>

\* C10: after a compile without error the project-id list is the
\* concatenation, in left-to-right order through the Groups, of the resolved
\* ids of the project / project.name terms with = or IN, and the group-id
\* list the concatenation of the values the issue.id terms with = or IN and
\* a non-empty value had when the call began; duplicates stay, and the other
\* terms add nothing.
C10_SideLists ==
    \A k \in Calls :
        results[k].err = "" =>
            LET leaves == LeavesInOrder(terms)
            IN  /\ results[k].projects_to_filter =
                      Concat([i \in 1..Len(leaves) |-> ProjectIdsOf(leaves[i])])
                /\ results[k].group_ids =
                      Concat([i \in 1..Len(leaves) |->
                                 GroupIdsOf(leaves[i], results[k].pre)])

\* an issue.id term AND a Group with the same issue.id term and a project
\* term: the group ids are listed twice
C10_Duplicates ==
    /\ terms = Tag(<<tI, AND, ParenExpression(<<tI, tP>>)>>, 0)
    /\ Len(results) >= 1
    /\ results[1].err = ""
    /\ results[1].group_ids = <<1, 2, 1, 2>>
    /\ results[1].projects_to_filter = <<1, 2>>

\* the function form of one converted filter: the condition itself, or the
\* OR of the conditions of a list
FragmentTree(f) ==
    IF is_condition(f) THEN convert_condition_to_function(f.conds[1])
    ELSE RightLeaning(SNUBA_OR,
             [j \in 1..Len(f.conds) |-> convert_condition_to_function(f.conds[j])])

\* what format_search_filter hands back as group ids, read as a list
GroupIdList(g, h) == IF g.kind = "alias" THEN h[g.ref] ELSE g.list

\* the outcome of call k read as the 4-tuple of object graphs
Returned4(k) ==
    <<results[k].tree, results[k].htree, results[k].projects_to_filter,
      results[k].group_ids>>

\* C11: the compile of a one-item sequence [t] raises what converting t raises
\* and otherwise returns what converting t returns: for a non-aggregate term
\* the function form of its fragment (None when it has none) as the condition
\* tree, under no AND / OR node of the builder, None as the having tree, and
\* the term's side lists; for an aggregate term the function form of its
\* fragment as the having tree and None as the condition tree; for a Group
\* what the builder returns for the Group's children.
C11_SingleTerm ==
    \A k \in Calls :
        Len(terms) = 1 =>
            LET t == terms[1]
                h == LeafHeap(k)
                f == format_search_filter(t, CompileEnv, h)
                sub == convert_search_boolean_to_snuba_query(t.children, CompileEnv, h, 0)
            IN  CASE t.type = "SearchFilter" ->
                       IF f.err # "" THEN results[k].err = f.err
                       ELSE /\ results[k].err = ""
                            /\ Returned4(k) =
                                  <<IF Len(f.conditions) = 0 THEN NoneT
                                    ELSE FragmentTree(f.conditions[1]),
                                    NoneT, f.projects_to_filter,
                                    GroupIdList(f.group_ids, h)>>
                  [] t.type = "AggregateFilter" ->
                       /\ results[k].err = ""
                       /\ Returned4(k) =
                             <<NoneT,
                               convert_condition_to_function(
                                   convert_aggregate_filter_to_snuba_query(t, CompileEnv, h)),
                               <<>>, <<>>>>
                  [] t.type = "ParenExpression" ->
                       /\ results[k].err = sub.err
                       /\ Returned4(k) =
                             <<sub.condition, sub.having, sub.projects_to_filter,
                               sub.group_ids>>
                  [] OTHER ->
                       /\ results[k].err = ""
                       /\ Returned4(k) = <<NoneT, NoneT, <<>>, <<>>>>

\* the one-term query title:!=b has been compiled: its fragment is a list of
\* two conditions, and the condition tree is their OR and nothing more
C11_OneInequality ==
    /\ terms = Tag(<<tB>>, 0)
    /\ Len(results) >= 1
    /\ results[1].err = ""
    /\ results[1].tree =
          Call(SNUBA_OR,
               <<Call("equals", <<Call("isNull", <<Col("title")>>), Num(1)>>),
                 Call("notEquals", <<Col("title"), Lit("b")>>)>>)
    /\ results[1].htree = NoneT

\* the errors that are InvalidSearchQuery in the code
InvalidQueryErrors == {"SyntaxError", "MixedTreeError", "InvalidSearchQuery"}

\* C18: every compile call ends by returning its 4-tuple or by raising the
\* invalid-query error, for the empty sequence and for a Group without
\* children too: no call recurses on an empty sequence, which would recurse
\* without end.
C18_Terminates ==
    \A k \in Calls : results[k].err \in {""} \cup InvalidQueryErrors

\* the leaf terms that no OR stands beside, at their own level or at a level
\* above them
RECURSIVE ConjunctiveLeaves(_)
ConjunctiveLeaves(ts) ==
    IF \E i \in 1..Len(ts) : ts[i] = OR THEN {}
    ELSE UNION {IF ts[i].type = "ParenExpression" THEN ConjunctiveLeaves(ts[i].children)
                ELSE IF ts[i].type = "SearchBoolean" THEN {}
                ELSE {ts[i]} : i \in 1..Len(ts)}

\* C19: after a compile without error every id of the returned project-id
\* list comes from a project term, and every id of the returned group-id
\* list from an issue.id term, that lies on neither side of an OR at any
\* level of the query.
C19_SideListsConjunctive ==
    \A k \in Calls :
        results[k].err = "" =>
            /\ SeqToSet(results[k].projects_to_filter) \subseteq
                  UNION {SeqToSet(ProjectIdsOf(t)) : t \in ConjunctiveLeaves(terms)}
            /\ SeqToSet(results[k].group_ids) \subseteq
                  UNION {SeqToSet(GroupIdsOf(t, results[k].pre)) :
                           t \in ConjunctiveLeaves(terms)}

\* every AND / OR node of the tree has two children, neither of them None
RECURSIVE BinaryTree(_)
BinaryTree(tree) ==
    \/ tree # NoneT /\ "fn" \notin DOMAIN tree
    \/ /\ tree # NoneT
       /\ "fn" \in DOMAIN tree
       /\ tree.fn \in {SNUBA_AND, SNUBA_OR} =>
             /\ Len(tree.args) = 2
             /\ \A i \in 1..2 : BinaryTree(tree.args[i])

\* C21: after a compile without error the condition tree is None exactly
\* when no non-aggregate term of the sequence, Groups included, has a
\* fragment, and the having tree is None exactly when the sequence has no
\* aggregate term; a tree that is not None has two children under each of
\* its AND / OR nodes and None under none of them.
C21_BinaryTrees ==
    \A k \in Calls :
        results[k].err = "" =>
            /\ (results[k].tree = NoneT) <=> (FilterFragments(k) \subseteq {NoneT})
            /\ (results[k].htree = NoneT) <=> (AggregateFragments(k) = {})
            /\ results[k].tree # NoneT => BinaryTree(results[k].tree)
            /\ results[k].htree # NoneT => BinaryTree(results[k].htree)

\* issue.id:[1,2] AND browser:a has been compiled: the issue.id term has no
\* fragment, and the condition tree is the fragment of browser:a alone
C21_SideDropped ==
    /\ terms = Tag(<<tI, AND, tA>>, 0)
    /\ Len(results) >= 1
    /\ results[1].err = ""
    /\ LeafTree(terms[1], 1) = NoneT
    /\ results[1].tree = LeafTree(terms[3], 1)
    /\ results[1].tree # NoneT

\* the term yields a condition fragment when converted on its own
YieldsCondition(t, k) == t.type = "SearchFilter" /\ LeafTree(t, k) # NoneT

\* what the call returned is what `out` holds
SameResult(k, out) ==
    /\ results[k].err = out.err
    /\ results[k].tree = out.condition
    /\ results[k].htree = out.having
    /\ results[k].projects_to_filter = out.projects_to_filter
    /\ results[k].group_ids = out.group_ids

\* C22: a sequence that is one Group returns, trees and side lists and
\* error alike, what its children return when compiled as a sequence of
\* their own; for condition-yielding terms A, B, C the sequence
\* [A, AND, Group[B, OR, C]] returns AND(A, OR(B, C)) and the sequence
\* [A, AND, B, OR, C] returns OR(AND(A, B), C).
C22_GroupOpaque ==
    \A k \in Calls :
        /\ (Len(terms) = 1 /\ terms[1].type = "ParenExpression") =>
              SameResult(k, convert_search_boolean_to_snuba_query(
                                terms[1].children, CompileEnv, LeafHeap(k), 0))
        /\ ( /\ Len(terms) = 3
             /\ YieldsCondition(terms[1], k)
             /\ terms[2] = AND
             /\ terms[3].type = "ParenExpression"
             /\ Len(terms[3].children) = 3
             /\ YieldsCondition(terms[3].children[1], k)
             /\ terms[3].children[2] = OR
             /\ YieldsCondition(terms[3].children[3], k) ) =>
              /\ results[k].err = ""
              /\ results[k].tree =
                    Call(SNUBA_AND,
                         <<LeafTree(terms[1], k),
                           Call(SNUBA_OR,
                                <<LeafTree(terms[3].children[1], k),
                                  LeafTree(terms[3].children[3], k)>>)>>)
        /\ ( /\ Len(terms) = 5
             /\ \A i \in {1, 3, 5} : YieldsCondition(terms[i], k)
             /\ terms[2] = AND
             /\ terms[4] = OR ) =>
              /\ results[k].err = ""
              /\ results[k].tree =
                    Call(SNUBA_OR,
                         <<Call(SNUBA_AND,
                                <<LeafTree(terms[1], k), LeafTree(terms[3], k)>>),
                           LeafTree(terms[5], k)>>)

\* browser:a AND (browser:a OR project:[a,b]) has been compiled
C22_GroupAfterAnd ==
    /\ terms = Tag(<<tA, AND, ParenExpression(<<tA, OR, tP>>)>>, 0)
    /\ Len(results) >= 1
    /\ results[1].err = ""
    /\ results[1].tree.fn = SNUBA_AND
    /\ results[1].tree.args[2].fn = SNUBA_OR
    /\ results[1].tree.args[2].args[2] = LeafTree(terms[3].children[3], 1)

-----------------------------------------------------------------------------
(* Properties of the term converter *)

Converted(name) == cresult.call = "convert" /\ cterm.key.name = name

EnvironmentIsNull == Cond(Col("environment"), "IS NULL", NoneT)

EnvironmentIs(v) == Cond(Col("environment"), "=", Lit(v))

\* C12: an environment term with operator = converts to a list of fragments
\* to be OR-ed: for a value list made of "" and one non-empty v, exactly
\* (environment IS NULL) and (environment = v), in this order; with no ""
\* among the values only the value fragment (= v for one value, IN for
\* several); with "" alone only the null fragment.
C12_EnvironmentEquals ==
    (Converted("environment") /\ cterm.operator = "=") =>
        LET values == ValueSet(cterm)
            rest == values \ {""}
        IN  /\ cresult.frag.kind = "list"
            /\ ("" \in values /\ Cardinality(rest) = 1) =>
                  cresult.frag.conds =
                      <<EnvironmentIsNull, EnvironmentIs(CHOOSE v \in rest : TRUE)>>
            /\ ("" \notin values /\ Cardinality(rest) = 1) =>
                  cresult.frag.conds = <<EnvironmentIs(CHOOSE v \in rest : TRUE)>>
            /\ ("" \notin values /\ Cardinality(rest) > 1) =>
                  cresult.frag.conds = <<Cond(Col("environment"), "IN", [set |-> rest])>>
            /\ values = {""} => cresult.frag.conds = <<EnvironmentIsNull>>

\* environment = ["", "prod"] has been converted to the two fragments
C12_NullAndProd ==
    /\ Converted("environment")
    /\ cterm.operator = "="
    /\ cterm.value = StrsV(<<"", "prod">>)
    /\ cresult.frag = FragList(<<EnvironmentIsNull, EnvironmentIs("prod")>>)

IsHandled == Cond(Call("isHandled", <<>>), "=", Num(1))

NotHandled == Cond(Call("notHandled", <<>>), "=", Num(1))

\* C13: an error.handled term with a non-empty value converts, whatever its
\* operator, to isHandled() = 1 for "1" or 1 and to notHandled() = 1 for "0"
\* or 0; for every other value the conversion raises the invalid-query error
\* and there is no fragment.
C13_ErrorHandled ==
    (Converted("error.handled") /\ cterm.value # StrV("")) =>
        IF cterm.value \in {StrV("1"), IdV(1)} THEN cresult.frag = FragCond(IsHandled)
        ELSE IF cterm.value \in {StrV("0"), IdV(0)} THEN cresult.frag = FragCond(NotHandled)
        ELSE /\ cresult.frag.kind = "error"
             /\ cresult.frag.err = "InvalidSearchQuery"
             /\ cresult.frag.conds = <<>>

\* error.handled:2 has been converted: the invalid-query error
C13_InvalidLiteral ==
    /\ Converted("error.handled")
    /\ cterm.value = StrV("2")
    /\ cresult.frag = FragError("InvalidSearchQuery")

\* what a LIKE pattern matches, read from left to right: a character after
\* an escape stands for itself, a bare % for any run of characters, a bare _
\* for any one character
RECURSIVE Unescape(_)
Unescape(pattern) ==
    IF Len(pattern) = 0 THEN <<>>
    ELSE IF Head(pattern) = Backslash /\ Len(pattern) >= 2
    THEN << <<"literal", pattern[2]>> >> \o Unescape(SubSeq(pattern, 3, Len(pattern)))
    ELSE IF Head(pattern) = "%" THEN << <<"any run", "">> >> \o Unescape(Tail(pattern))
    ELSE IF Head(pattern) = "_" THEN << <<"any one", "">> >> \o Unescape(Tail(pattern))
    ELSE << <<"literal", Head(pattern)>> >> \o Unescape(Tail(pattern))

\* what one character of the raw value becomes in the pattern
Escaped(c) ==
    CASE c = "*" -> <<"%">>
      [] c \in {Backslash, "%", "_"} -> <<Backslash, c>>
      [] OTHER -> <<c>>

ArrayWildcardConverted ==
    /\ cresult.call = "convert"
    /\ cterm.key.name \in ARRAY_FIELDS
    /\ cterm.value.wild

UnresolvedProject ==
    /\ cterm.key.name \in {PROJECT_ALIAS, PROJECT_NAME_ALIAS}
    /\ cterm.value # StrV("")
    /\ MissingSlugs(cterm, cenv) # {}

UnresolvedIssue ==
    /\ cterm.key.name = ISSUE_ALIAS
    /\ ~(GroupShortIds(cterm) \subseteq DOMAIN GroupTable)

\* every reference of the term is unresolved
NothingResolved ==
    \/ UnresolvedProject /\ Len(ProjectIds(cterm, cenv)) = 0
    \/ UnresolvedIssue /\ GroupShortIds(cterm) \cap DOMAIN GroupTable = {}

\* C15: formatting, with the organization and its selected projects given, a
\* project term or an issue term that holds an unresolved reference raises
\* the invalid-query error if and only if the operator is = or IN; with !=
\* or NOT IN nothing is raised, no side list is returned, and no condition
\* either when none of the term's references resolves.
C15_UnresolvedReference ==
    (/\ cresult.call = "format"
     /\ cenv.params = CompileParams
     /\ UnresolvedProject \/ UnresolvedIssue)
        => /\ (cresult.formatted.err = "InvalidSearchQuery")
                <=> (cterm.operator \in {"=", "IN"})
           /\ cterm.operator \in {"!=", "NOT IN"} =>
                 /\ cresult.formatted.err = ""
                 /\ cresult.formatted.projects_to_filter = <<>>
                 /\ cresult.formatted.group_ids = NoGroupIds
                 /\ NothingResolved => cresult.formatted.conditions = <<>>

\* the shapes of the fragments the array rules and the generic rule make
IsLikeRule(f) == f.kind = "cond" /\ f.conds[1].op \in {"LIKE", "NOT LIKE"}

LhsFunction(f) ==
    IF f.kind = "cond" /\ "fn" \in DOMAIN f.conds[1].lhs THEN f.conds[1].lhs.fn ELSE ""

IsAnyElementRule(f) == LhsFunction(f) = "hasAny"

IsEmptinessRule(f) == LhsFunction(f) = "notEmpty"

\* the left-hand side of the generic rule: the column, null-coalesced for a tag
GenericLhs(t) ==
    IF t.key.is_tag THEN Call("ifNull", <<Col(t.key.name), Lit("''")>>)
    ELSE Col(t.key.name)

IsGenericCondition(c, t) ==
    \/ c.lhs = GenericLhs(t)
    \/ c.lhs = Call("isNull", <<GenericLhs(t)>>)
    \/ "fn" \in DOMAIN c.lhs /\ c.lhs.fn = "match" /\ c.lhs.args[1] = GenericLhs(t)

IsGenericRule(f, t) ==
    /\ f.kind \in {"cond", "list"}
    /\ \A i \in 1..Len(f.conds) :
          IsGenericCondition(f.conds[i], t) /\ f.conds[i].op \notin {"LIKE", "NOT LIKE"}

\* C23: a converted term has the result of the first rule that matches it:
\* None for a no-conversion field; else what its dedicated converter returns
\* or raises for a special-named field; else a LIKE / NOT LIKE fragment for
\* an array field with a wildcard value, whatever the operator; else a
\* hasAny fragment for an array field with IN / NOT IN; else a notEmpty
\* fragment for an array field with an empty value; else fragments of the
\* generic rule over the column itself.
C23_FirstMatchWins ==
    cresult.call = "convert" =>
        LET name == cterm.key.name
            f == cresult.frag
        IN  IF name \in NO_CONVERSION_FIELDS THEN f = FragNone
            ELSE IF name \in KeyConversionNames
            THEN f = key_conversion_map(name, cterm, cenv, CallHeap(<<cterm>>, heap))
            ELSE IF name \in ARRAY_FIELDS /\ cterm.value.wild
            THEN IsLikeRule(f)
            ELSE IF name \in ARRAY_FIELDS /\ cterm.operator \in {"IN", "NOT IN"}
            THEN IsAnyElementRule(f)
            ELSE IF name \in ARRAY_FIELDS /\ cterm.value = StrV("")
            THEN IsEmptinessRule(f)
            ELSE IsGenericRule(f, cterm)

\* error.type IN a* has been converted, to a NOT LIKE fragment
C23_WildcardAndIn ==
    /\ Converted("error.type")
    /\ cterm.operator = "IN"
    /\ cterm.value.wild
    /\ cresult.frag =
          FragCond(Cond(Col("error.type"), "NOT LIKE", [str |-> <<"a", "%">>]))

\* a converted term on a field that is neither no-conversion, special nor
\* array-typed
GenericConverted ==
    /\ cresult.call = "convert"
    /\ cterm.key.name \notin NO_CONVERSION_FIELDS \cup KeyConversionNames \cup ARRAY_FIELDS

\* the comparison fragment of the generic rule: a regex match for a wildcard
\* value, else the left-hand side against the value
Comparison(t) ==
    IF t.value.wild
    THEN Cond(Call("match", <<GenericLhs(t), [regex |-> t.value.s]>>), t.operator, Num(1))
    ELSE Cond(GenericLhs(t), t.operator, Rhs(t, CallHeap(<<t>>, heap)))

IsNullFragment(c) == "fn" \in DOMAIN c.lhs /\ c.lhs.fn = "isNull"

\* the result of the generic rule when `exempt` names the non-tag fields
\* whose inequalities get no is-null fragment
GenericResult(exempt) ==
    LET t == cterm
        f == cresult.frag
    IN  IF t.key.is_tag
        THEN /\ f = FragCond(Comparison(t))
             /\ ~IsNullFragment(f.conds[1])
        ELSE IF t.operator \in {"=", "!="} /\ t.value = StrV("")
        THEN f = FragCond(Cond(Call("isNull", <<Col(t.key.name)>>), t.operator, Num(1)))
        ELSE IF t.operator \in {"!=", "NOT IN"} /\ t.key.name \notin exempt
        THEN f = FragList(<<Cond(Call("isNull", <<Col(t.key.name)>>), "=", Num(1)),
                            Comparison(t)>>)
        ELSE f = FragCond(Comparison(t))

C25_NullPolarity ==
    (Converted("environment") /\ "" \in ValueSet(cterm)) =>
        LET conds == cresult.frag.conds
            equality == cterm.operator \in {"=", "IN"}
        IN  /\ Len(conds) >= 1
            /\ conds[1] = Cond(Col("environment"),
                               IF equality THEN "IS NULL" ELSE "IS NOT NULL", NoneT)
            /\ Len(conds) = 2 =>
                  (conds[1].op = "IS NULL") = (conds[2].op \in {"=", "IN"})

\* the literal with 1 and 0 exchanged, as a string or as a number
Inverted(value) ==
    CASE value = StrV("1") -> StrV("0")
      [] value = StrV("0") -> StrV("1")
      [] value = IdV(1) -> IdV(0)
      [] value = IdV(0) -> IdV(1)
      [] OTHER -> value

\* what the converter of the other of the two fields returns for the term
\* with the given value
OtherHandled(value) ==
    LET t == [cterm EXCEPT !.value = value]
    IN  IF cterm.key.name = ERROR_UNHANDLED_ALIAS
        THEN error_handled_filter_converter(t, "error.handled")
        ELSE error_unhandled_filter_converter(t, ERROR_UNHANDLED_ALIAS)

\* C28: a converted error.unhandled (error.handled) term with value 1 or 0
\* has the fragment the error.handled (error.unhandled) converter returns
\* for the same operator and the other of the two values; with the empty
\* value both return isHandled() = b, with complementary b for the same
\* operator; with any other value both raise the invalid-query error.
C28_Inverse ==
    (Converted(ERROR_UNHANDLED_ALIAS) \/ Converted("error.handled")) =>
        IF cterm.value \in {StrV("1"), StrV("0"), IdV(1), IdV(0)}
        THEN /\ cresult.frag.kind = "cond"
             /\ cresult.frag = OtherHandled(Inverted(cterm.value))
        ELSE IF cterm.value = StrV("")
        THEN \E b \in {0, 1} :
                /\ cresult.frag = FragCond(Cond(Call("isHandled", <<>>), "=", Num(b)))
                /\ OtherHandled(cterm.value) =
                      FragCond(Cond(Call("isHandled", <<>>), "=", Num(1 - b)))
        ELSE /\ cresult.frag = FragError("InvalidSearchQuery")
             /\ OtherHandled(cterm.value) = FragError("InvalidSearchQuery")

\* !has:error.unhandled has been converted to isHandled() = 0
C28_HasUnhandledNegated ==
    /\ Converted(ERROR_UNHANDLED_ALIAS)
    /\ cterm.operator = "!="
    /\ cterm.value = StrV("")
    /\ cresult.frag = FragCond(Cond(Call("isHandled", <<>>), "=", Num(0)))
    /\ OtherHandled(cterm.value) = FragCond(IsHandled)

\* the status names of a transaction.status term
StatusNames == IF cterm.value.kind = "slugs" THEN cterm.value.slugs ELSE <<cterm.value.s>>

\* the fragment of a transaction.status term whose names are all translated
StatusTranslated ==
    /\ cresult.frag.kind = "cond"
    /\ cresult.frag.conds[1].lhs = Col(TRANSACTION_STATUS_ALIAS)
    /\ cresult.frag.conds[1].op = cterm.operator
    /\ IF cterm.value.kind = "slugs"
       THEN /\ "lst" \in DOMAIN cresult.frag.conds[1].rhs
            /\ Len(cresult.frag.conds[1].rhs.lst) = Len(StatusNames)
            /\ \A i \in 1..Len(StatusNames) :
                  /\ StatusNames[i] \in DOMAIN SPAN_STATUS_NAME_TO_CODE
                  /\ cresult.frag.conds[1].rhs.lst[i] =
                        SPAN_STATUS_NAME_TO_CODE[StatusNames[i]]
       ELSE /\ StatusNames[1] \in DOMAIN SPAN_STATUS_NAME_TO_CODE
            /\ cresult.frag.conds[1].rhs = Num(SPAN_STATUS_NAME_TO_CODE[StatusNames[1]])

\* a transaction.status term other than the has-query raises when one of
\* its names is in `unknown`, and is translated name by name otherwise; a
\* team_key_transaction term raises for every literal but empty, 1 and 0
ConstrainedLiterals(unknown) ==
    /\ (Converted(TRANSACTION_STATUS_ALIAS) /\ cterm.value # StrV("")) =>
          IF \E i \in 1..Len(StatusNames) : StatusNames[i] \in unknown
          THEN cresult.frag = FragError("InvalidSearchQuery")
          ELSE StatusTranslated
    /\ Converted(TEAM_KEY_TRANSACTION_ALIAS) =>
          IF cterm.value \in {StrV(""), StrV("1"), StrV("0"), IdV(1), IdV(0)}
          THEN cresult.frag.kind = "cond"
          ELSE cresult.frag = FragError("InvalidSearchQuery")

\* every string that is no key of the status table, and the non-empty ones
AbsentNames == {"", "bogus"}
AbsentNonEmptyNames == AbsentNames \ {""}

\* C29: as stated: a transaction.status term raises the invalid-query error
\* and returns no fragment when its value, or a member of its list, is a
\* non-empty name the status table does not have, and otherwise has every
\* name replaced by its code; a team_key_transaction term raises for every
\* literal other than empty, 1 and 0.
C29_NoSilentFallback == ConstrainedLiterals(AbsentNonEmptyNames)

\* C29, amended: the same, with the empty string among the members of a list
\* that make the term raise.
C29_NoSilentFallbackEmptyMember == ConstrainedLiterals(AbsentNames)

\* transaction.status:[ok, bogus] has been converted: the invalid-query
\* error, and no fragment for ok
C29_PartialListRaises ==
    /\ Converted(TRANSACTION_STATUS_ALIAS)
    /\ cterm.operator = "IN"
    /\ cterm.value = StrsV(<<"ok", "bogus">>)
    /\ cresult.frag = FragError("InvalidSearchQuery")
    /\ cresult.frag.conds = <<>>

-----------------------------------------------------------------------------
(* Properties of the release resolver *)

SemverDone == sfilter.key.name = SEMVER_ALIAS /\ sresult.status = "ok"

NotInOverExcluded ==
    sresult.frag = Cond(Col("release"), "NOT IN", Lst(sresult.exclude_versions))

FinalVersions ==
    IF sresult.frag.op = "NOT IN" THEN sresult.exclude_versions ELSE sresult.versions

\* C9: the fragment a release converter returns is `release IN L` or
\* `release NOT IN L` with 1 <= |L| <= MAX_SEARCH_RELEASES; L is the final
\* version list, all of them releases of the store, or the one-element list
\* of SEMVER_EMPTY_RELEASE when that list is empty.
C9_ReleaseFragment ==
    sresult.status = "ok" =>
        /\ sresult.frag.lhs = Col("release")
        /\ sresult.frag.op \in {"IN", "NOT IN"}
        /\ Len(sresult.frag.rhs.lst) >= 1
        /\ Len(sresult.frag.rhs.lst) <= MAX_SEARCH_RELEASES
        /\ IF Len(FinalVersions) = 0
           THEN sresult.frag.rhs.lst = <<SEMVER_EMPTY_RELEASE>>
           ELSE /\ sresult.frag.rhs.lst = FinalVersions
                /\ \A i \in 1..Len(FinalVersions) :
                      FinalVersions[i] \in Versions /\ store[FinalVersions[i]] # 0

\* a build term that no release matches: IN over the sentinel
C9_Sentinel ==
    /\ sfilter.key.name = SEMVER_BUILD_ALIAS
    /\ sresult.status = "ok"
    /\ sresult.versions = <<>>
    /\ sresult.frag = Cond(Col("release"), "IN", Lst(<<SEMVER_EMPTY_RELEASE>>))

ReleaseConverterDone ==
    /\ sresult # IdleResult
    /\ sfilter.key.name \in {RELEASE_STAGE_ALIAS, SEMVER_ALIAS, SEMVER_PACKAGE_ALIAS,
                              SEMVER_BUILD_ALIAS}

\* C16: a release-stage, semver, semver-package or semver-build conversion
\* called without a parameter bag, or with one that has no organization_id,
\* raises ValueError, not the invalid-query error, whatever the term, and has
\* issued no release-store query when it raises.
C16_OrganizationRequired ==
    (/\ ReleaseConverterDone
     /\ ~sparams.given \/ sparams.organization_id = 0)
        => /\ sresult.status = "ValueError"
           /\ sresult.queries = 0

\* a semver-build conversion with project ids but no organization_id has
\* raised ValueError
C16_BuildWithoutOrganization ==
    /\ sfilter.key.name = SEMVER_BUILD_ALIAS
    /\ sparams.given
    /\ sparams.organization_id = 0
    /\ sresult.status = "ValueError"
    /\ sresult.queries = 0

\* C17: a semver or semver-build conversion, called with an organization,
\* of a term with operator IN or NOT IN raises the invalid-query error and
\* has issued no release-store query when it raises.
C17_MembershipOperator ==
    (/\ ReleaseConverterDone
     /\ sfilter.key.name \in {SEMVER_ALIAS, SEMVER_BUILD_ALIAS}
     /\ sfilter.operator \in {"IN", "NOT IN"}
     /\ sparams.given /\ sparams.organization_id # 0)
        => /\ sresult.status = "InvalidSearchQuery"
           /\ sresult.queries = 0

\* release.build with IN has raised the invalid-query error, with releases
\* in the store that a query would have found
C17_BuildIn ==
    /\ sfilter.key.name = SEMVER_BUILD_ALIAS
    /\ sfilter.operator = "IN"
    /\ sparams.given /\ sparams.organization_id # 0
    /\ \E v \in Versions : store[v] # 0 /\ BuildOf(v) = sfilter.value.n
    /\ sresult.status = "InvalidSearchQuery"
    /\ sresult.queries = 0

\* the rows of the second query of a semver conversion, asked of the store
NegatedQueryRows ==
    Limit(OrderBy(filter_by_semver(
                      store,
                      parse_semver(sfilter.value,
                                   OPERATOR_NEGATION_MAP(sfilter.operator)).filter,
                      <<>>),
                  sfilter.operator \notin {"<", "<="}),
          MAX_SEARCH_RELEASES)

C26_OneQueryAlwaysIn ==
    (/\ sresult.status = "ok"
     /\ sfilter.key.name \in {RELEASE_STAGE_ALIAS, SEMVER_PACKAGE_ALIAS,
                               SEMVER_BUILD_ALIAS}) =>
        /\ sresult.queries = 1
        /\ sresult.exclude_versions = <<>>
        /\ Len(sresult.versions) <= MAX_SEARCH_RELEASES
        /\ sresult.frag =
              Cond(Col("release"), "IN",
                   Lst(IF Len(sresult.versions) = 0 THEN <<SEMVER_EMPTY_RELEASE>>
                       ELSE sresult.versions))

\* a release-stage term with != whose query was cut at the cap: one query,
\* IN over its rows
C26_StageInequalitySaturated ==
    /\ sfilter.key.name = RELEASE_STAGE_ALIAS
    /\ sfilter.operator = "!="
    /\ sresult.status = "ok"
    /\ Len(sresult.versions) = MAX_SEARCH_RELEASES
    /\ sresult.queries = 1
    /\ sresult.frag = Cond(Col("release"), "IN", Lst(sresult.versions))

\* a semver term whose version the release parser does not accept as a
\* complete semantic version, converted with an organization and an operator
\* the semver converter accepts
IncompleteSemverDone ==
    /\ sfilter.key.name = SEMVER_ALIAS
    /\ sresult # IdleResult
    /\ ~sfilter.value.complete
    /\ sfilter.operator \notin {"IN", "NOT IN"}
    /\ sparams.given /\ sparams.organization_id # 0

\* the segments of a version string: its first three dot-separated pieces
\* and, as the fourth, all that follows the third dot
Segments(pieces) ==
    [i \in 1..(IF Len(pieces) > 4 THEN 4 ELSE Len(pieces)) |->
        IF i = 4 /\ Len(pieces) > 4 THEN TextSeg ELSE pieces[i]]

\* the segments before the first wildcard segment
BeforeWildcard(segs) ==
    SubSeq(segs, 1,
           IF \E i \in 1..Len(segs) : segs[i] = WildcardSeg
           THEN (CHOOSE i \in 1..Len(segs) :
                    segs[i] = WildcardSeg /\ \A j \in 1..(i - 1) : segs[j] # WildcardSeg) - 1
           ELSE Len(segs))

\* C27: parse_semver of a version that is not a complete semantic version
\* raises the invalid-query error when a segment before the first wildcard
\* is not an integer; otherwise it returns the operator exact, whatever the
\* term's operator, negated for != only, the segments before the first
\* wildcard as version parts (integers, four at most, none when the first
\* segment is a wildcard), and no package when the string has none or names
\* the default package; the converter raises or queries accordingly.
C27_WildcardConstraint ==
    IncompleteSemverDone =>
        LET parsed == parse_semver(sfilter.value, sfilter.operator)
            before == BeforeWildcard(Segments(sfilter.value.ids))
            package == IF sfilter.value.package \in {"", SEMVER_FAKE_PACKAGE} THEN ""
                       ELSE sfilter.value.package
            expected == SemverFilter("exact", before, package, sfilter.operator = "!=")
        IN  IF \E i \in 1..Len(before) : before[i] \notin Nat
            THEN ~parsed.ok /\ sresult.status = "InvalidSearchQuery"
            ELSE /\ parsed.ok
                 /\ parsed.filter = expected
                 /\ Len(parsed.filter.version_parts) <= 4
                 /\ sresult.status = "ok"
                 /\ sresult.versions =
                       Limit(OrderBy(filter_by_semver(store, expected, sparams.project_id),
                                     sfilter.operator \in {"<", "<="}),
                             MAX_SEARCH_RELEASES)

\* release.version:>pkgB@2.* has been converted: the releases of pkgB with
\* major version 2, not those above it
C27_GreaterThanWildcard ==
    /\ IncompleteSemverDone
    /\ sfilter.operator = ">"
    /\ sfilter.value = VerV("pkgB", <<2, WildcardSeg>>, "", FALSE)
    /\ parse_semver(sfilter.value, sfilter.operator).filter =
          SemverFilter("exact", <<2>>, "pkgB", FALSE)
    /\ sresult.status = "ok"
    /\ sresult.versions = <<2>>

\* the rows of the negated query when it is given the project scope of the
\* first query
ScopedNegatedQueryRows ==
    Limit(OrderBy(filter_by_semver(
                      store,
                      parse_semver(sfilter.value,
                                   OPERATOR_NEGATION_MAP(sfilter.operator)).filter,
                      sparams.project_id),
                  sfilter.operator \notin {"<", "<="}),
          MAX_SEARCH_RELEASES)

\* C30: when a semver conversion has made the query with the negated
\* operator, that query's rows are those of the negated constraint within
\* the project scope of the first query, and every version of an emitted
\* NOT IN list is a release of a project in that scope.
C30_NegatedQueryScoped ==
    (SemverDone /\ sresult.queries = 2) =>
        /\ sresult.exclude_versions = ScopedNegatedQueryRows
        /\ sresult.frag.op = "NOT IN" =>
              \A i \in 1..Len(sresult.frag.rhs.lst) :
                  InScope(store, sresult.frag.rhs.lst[i], sparams.project_id)

====
